---- MODULE Spec2Model ----
(***************************************************************************)
(* Model of the streaming voice pipeline of the conversational agent:      *)
(*   - the stream coordinator's text chunker (StreamingTTSService          *)
(*     .splitTextIntoChunks),                                              *)
(*   - the synthesis client's retry loop (TTSService.makeRequest) driven   *)
(*     by the stream coordinator (StreamingTTSService.streamResponse),     *)
(*   - the chat handler that feeds it (WebSocketService                    *)
(*     .handleChatMessage),                                                *)
(*   - the client's AudioQueueManager,                                     *)
(*   - the client's AudioRecorder and its silence detection.               *)
(* A text is a sequence of one-character strings.                          *)
(***************************************************************************)
EXTENDS Integers, Sequences, FiniteSets, Bags, TLC

VARIABLES
    cText,      \* chunker run (either chunker): the input text
    cLimit,     \* chunker run: the chunk size L
    cChunks,    \* chunker run: the returned chunk list
    cDone,      \* chunker run: TRUE once splitTextIntoChunks has returned
    activeStreams,  \* StreamingTTSService.activeStreams: a set of socket ids
    streams,        \* each streamResponse invocation: its position and locals
    events,         \* per socket, the stream events emitted on it, in order
    closed,         \* the makeRequest call that the last step ended, if any
    audit,          \* whether the requests of each makeRequest call are recorded
    audioContext,   \* AudioQueueManager.audioContext: its state, or "null"
    contextTasks,   \* the states that suspend() and resume() calls are yet to set
    config,         \* AudioQueueManager.config.maxQueueSize
    queue,          \* AudioQueueManager.queue: the ids of the queued chunks
    isPlaying,      \* AudioQueueManager.isPlaying
    currentSource,  \* AudioQueueManager.currentSource: a source, or NoSource
    sources,        \* the buffer sources created so far, in creation order
    pending,        \* the awaits in flight: urlToBlob and createAudioBuffer
    reported,       \* the errors handed to handleError
    calls,          \* the number of public calls made so far
    asked,          \* the enqueueChunk, stop and clear calls so far, in order
    recorder,       \* the AudioRecorder's fields
    mediaRecorders, \* the MediaRecorders created so far: state, onstop handler,
                    \* and whether each is recording the stream in this.stream
    timers,         \* the silence timers set so far: due time and state
    frames,         \* the animation frames requested for checkSilence
    tasks,          \* the recorder's awaits and events in flight
    marks,          \* what has been observed of the recorder, its calls and the level
    rcalls,         \* the number of public calls made on the recorder
    now,            \* Date.now()
    level,          \* the average the analyser gives at present
    chats,          \* each handleChatMessage invocation: its position and locals
    activeConnections   \* WebSocketService.activeConnections: the connected socket ids

chunkerVars == <<cText, cLimit, cChunks, cDone>>
serverVars == <<activeStreams, streams, events, closed, audit, chats, activeConnections>>
queueVars == <<audioContext, contextTasks, config, queue, isPlaying, currentSource, sources,
               pending, reported, calls, asked>>
recorderVars == <<recorder, mediaRecorders, timers, frames, tasks, marks, rcalls, now, level>>
vars == <<cText, cLimit, cChunks, cDone, activeStreams, streams, events, closed, audit,
          audioContext, contextTasks, config, queue, isPlaying, currentSource, sources,
          pending, reported, calls, asked,
          recorder, mediaRecorders, timers, frames, tasks, marks, rcalls, now, level,
          chats, activeConnections>>

(***************************************************************************)
(* Bounds of the chunker runs.                                             *)
(***************************************************************************)
MaxTextLen == 7
MaxLimit == 4

SP == " "
NL == "\n"
Chars == {"a", "b", SP, NL}

\* All texts over Chars of length at most n.
TextsUpTo(n) == UNION {[1..k -> Chars] : k \in 0..n}

(***************************************************************************)
(* String helpers, as the JavaScript built-ins compute them.               *)
(***************************************************************************)
\* /\s/ : the whitespace characters of the alphabet.
IsSpace(c) == c \in {SP, NL}

\* '.' of a RegExp without the s flag: any character but a line terminator.
IsDot(c) == c # NL

\* The indices of t, in order.
Indices(t) == [k \in 1..Len(t) |-> k]
\* The positions of t, in order, whose character is in the set cs.
IndicesWhere(t, cs) == SelectSeq(Indices(t), LAMBDA k : t[k] \in cs)

\* t.split(c) for a one-character separator c.
SplitOn(t, c) ==
    LET at == IndicesWhere(t, {c})
    IN  [w \in 1..(Len(at) + 1) |->
            SubSeq(t, IF w = 1 THEN 1 ELSE at[w - 1] + 1,
                      IF w = Len(at) + 1 THEN Len(t) ELSE at[w] - 1)]

\* text.split(' ')
SplitOnSpace(t) == SplitOn(t, SP)

\* chunks.join(' ')
RECURSIVE JoinWithSpace(_)
JoinWithSpace(cs) ==
    IF Len(cs) = 0 THEN <<>>
    ELSE IF Len(cs) = 1 THEN cs[1]
    ELSE cs[1] \o <<SP>> \o JoinWithSpace(Tail(cs))

\* word.match(new RegExp(`.{1,${n}}`, 'g')) || [] : greedy, left to right;
\* a line terminator is never part of a match.
RECURSIVE MatchPieces(_, _)
MatchPieces(w, n) ==
    IF Len(w) = 0 THEN <<>>
    ELSE IF ~IsDot(w[1]) THEN MatchPieces(Tail(w), n)
    ELSE LET run == CHOOSE k \in 1..Len(w) :
                        /\ \A m \in 1..k : IsDot(w[m])
                        /\ (k = Len(w) \/ ~IsDot(w[k + 1]))
             take == IF run < n THEN run ELSE n
         IN  <<SubSeq(w, 1, take)>> \o MatchPieces(SubSeq(w, take + 1, Len(w)), n)

\* .replace(/\s+/g, ' ') : every run of whitespace becomes one space.
CollapseSpaces(t) ==
    LET kept == SelectSeq(Indices(t),
                    LAMBDA k : ~(IsSpace(t[k]) /\ k < Len(t) /\ IsSpace(t[k + 1])))
    IN  [m \in 1..Len(kept) |-> IF IsSpace(t[kept[m]]) THEN SP ELSE t[kept[m]]]

\* .trim()
Trim(t) ==
    LET solid == IndicesWhere(t, {x \in {t[k] : k \in DOMAIN t} : ~IsSpace(x)})
    IN  IF Len(solid) = 0 THEN <<>> ELSE SubSeq(t, solid[1], solid[Len(solid)])

\* text.trim().replace(/\s+/g, ' ')
NormalizeWhitespace(t) == CollapseSpaces(Trim(t))

(***************************************************************************)
(* StreamingTTSService.splitTextIntoChunks, with this.chunkSize = L.       *)
(***************************************************************************)
\* One iteration of `for (const word of words)`; st = [chunks, cur].
ChunkLoopStep(st, word, L) ==
    LET potentialChunk == IF st.cur # <<>> THEN st.cur \o <<SP>> \o word ELSE word
    IN  IF Len(potentialChunk) > L
        THEN IF st.cur # <<>>
             THEN [chunks |-> Append(st.chunks, st.cur), cur |-> word]
             ELSE [chunks |-> st.chunks \o MatchPieces(word, L), cur |-> st.cur]
        ELSE [chunks |-> st.chunks, cur |-> potentialChunk]

RECURSIVE ChunkLoop(_, _, _)
ChunkLoop(st, words, L) ==
    IF Len(words) = 0 THEN st
    ELSE ChunkLoop(ChunkLoopStep(st, Head(words), L), Tail(words), L)

\* Mutant: a small last chunk is merged whatever the length of the result.
AddLastChunk_AlwaysMerges(st, L) ==
    IF st.cur = <<>> THEN st.chunks
    ELSE IF Len(st.chunks) > 0 /\ 10 * Len(st.cur) < 3 * L
         THEN LET lastChunk == st.chunks[Len(st.chunks)]
                  popped == SubSeq(st.chunks, 1, Len(st.chunks) - 1)
                  combined == lastChunk \o <<SP>> \o st.cur
              IN  Append(popped, combined)
         ELSE Append(st.chunks, st.cur)

\* "Add the last chunk if any", with the small-trailing-chunk merge.
\* currentChunk.length < chunkSize * 0.3  <=>  10 * length < 3 * chunkSize
AddLastChunk(st, L) ==
    IF st.cur = <<>> THEN st.chunks
    ELSE IF Len(st.chunks) > 0 /\ 10 * Len(st.cur) < 3 * L
         THEN LET lastChunk == st.chunks[Len(st.chunks)]
                  popped == SubSeq(st.chunks, 1, Len(st.chunks) - 1)
                  combined == lastChunk \o <<SP>> \o st.cur
              IN  IF Len(combined) <= L
                  THEN Append(popped, combined)
                  ELSE popped \o <<lastChunk, st.cur>>
         ELSE Append(st.chunks, st.cur)

splitTextIntoChunks(text, L) ==
    IF Len(text) <= L THEN <<text>>
    ELSE AddLastChunk(ChunkLoop([chunks |-> <<>>, cur |-> <<>>],
                                SplitOnSpace(text), L), L)

(***************************************************************************)
(* TTSService.splitTextIntoChunks: the synthesis client cuts the text of   *)
(* one coordinator chunk into the sub-chunks it sends to the backend.      *)
(***************************************************************************)
maxChunkLength == 150

WordChars == {"a", "b"}                 \* \w
Terminators == {".", "!", "?"}          \* [.!?]
KeptPunctuation == {".", ",", "!", "?", "-"}

\* .replace(/[^\w\s.,!?-]/g, '')
RemoveSpecial(t) ==
    SelectSeq(t, LAMBDA x : x \in WordChars \/ IsSpace(x) \/ x \in KeptPunctuation)

\* trim, collapse whitespace, strip special characters; the final
\* .replace(/\*\*/g, '') finds nothing, '*' being stripped already.
CleanText(t) == RemoveSpecial(CollapseSpaces(Trim(t)))

\* Length of the longest prefix of t made of terminators (terminators =
\* TRUE) or of non-terminators (FALSE).
RunLength(t, terminators) ==
    LET used == {t[k] : k \in DOMAIN t}
        other == IndicesWhere(t, IF terminators THEN used \ Terminators
                                 ELSE used \cap Terminators)
    IN  IF Len(other) = 0 THEN Len(t) ELSE other[1] - 1

\* cleanedText.match(/[^.!?]+[.!?]+/g) : the matches, or <<>> when none.
RECURSIVE MatchSentences(_)
MatchSentences(t) ==
    IF Len(t) = 0 THEN <<>>
    ELSE IF t[1] \in Terminators THEN MatchSentences(Tail(t))
    ELSE LET body == RunLength(t, FALSE)
             dots == RunLength(SubSeq(t, body + 1, Len(t)), TRUE)
         IN  IF dots = 0 THEN <<>>
             ELSE <<SubSeq(t, 1, body + dots)>>
                      \o MatchSentences(SubSeq(t, body + dots + 1, Len(t)))

\* sentence.split(/,/)
SplitOnComma(t) == SplitOn(t, ",")

\* The comma-separated parts of a long sentence; st = [chunks, cur].
RECURSIVE TtsPartLoop(_, _)
TtsPartLoop(st, parts) ==
    IF Len(parts) = 0 THEN st
    ELSE LET part == Trim(Head(parts))
             next ==
                 IF part = <<>> THEN st
                 ELSE IF Len(st.cur) + 1 + Len(part) > maxChunkLength
                      THEN [chunks |-> IF st.cur # <<>>
                                       THEN Append(st.chunks, Trim(st.cur))
                                       ELSE st.chunks,
                            cur |-> part]
                      ELSE [chunks |-> st.chunks,
                            cur |-> IF st.cur # <<>>
                                    THEN st.cur \o <<",", SP>> \o part
                                    ELSE part]
         IN  TtsPartLoop(next, Tail(parts))

\* One iteration of `for (let i = 0; i < sentences.length; i++)`.
TtsSentenceStep(st, rawSentence, isLastSentence) ==
    LET sentence == Trim(rawSentence)
        after ==
            IF Len(sentence) > maxChunkLength
            THEN TtsPartLoop(st, SplitOnComma(sentence))
            ELSE IF Len(st.cur) + 1 + Len(sentence) > maxChunkLength
                 THEN [chunks |-> Append(st.chunks, Trim(st.cur)), cur |-> sentence]
                 ELSE [chunks |-> st.chunks,
                       cur |-> IF st.cur # <<>>
                               THEN st.cur \o <<SP>> \o sentence
                               ELSE sentence]
    IN  IF isLastSentence /\ after.cur # <<>>
        THEN [chunks |-> Append(after.chunks, Trim(after.cur)), cur |-> after.cur]
        ELSE after

RECURSIVE TtsSentenceLoop(_, _)
TtsSentenceLoop(st, sentences) ==
    IF Len(sentences) = 0 THEN st
    ELSE TtsSentenceLoop(TtsSentenceStep(st, Head(sentences), Len(sentences) = 1),
                         Tail(sentences))

ttsSplitTextIntoChunks(text) ==
    LET cleanedText == CleanText(text)
        matched == MatchSentences(cleanedText)
        sentences == IF matched = <<>> THEN <<cleanedText>> ELSE matched
    IN  TtsSentenceLoop([chunks |-> <<>>, cur |-> <<>>], sentences).chunks

(***************************************************************************)
(* The synthesis backend's answers to one axios.post, as makeRequest sees  *)
(* them: a 200, an HTTP error status (with the error code the installed    *)
(* axios attaches, if any), an error without a response, or an error that  *)
(* is not an AxiosError.                                                   *)
(***************************************************************************)
maxRetries == 3

HttpErrorStatuses == {400, 401, 429, 500, 502, 503}
AxiosCodeFor(status) == IF status < 500 THEN "ERR_BAD_REQUEST" ELSE "ERR_BAD_RESPONSE"

\* `audio` tells whether the body of a 200 is valid audio.
OkResponse == [status |-> 200, code |-> "", aborted |-> FALSE, axios |-> TRUE, audio |-> TRUE]
GarbledResponse == [OkResponse EXCEPT !.audio = FALSE]
Responses ==
    {OkResponse, GarbledResponse}
    \cup {[status |-> h, code |-> "", aborted |-> FALSE, axios |-> TRUE, audio |-> FALSE] :
              h \in HttpErrorStatuses}
    \cup {[status |-> 502, code |-> AxiosCodeFor(502), aborted |-> FALSE, axios |-> TRUE, audio |-> FALSE]}
    \cup {[status |-> 0, code |-> c, aborted |-> FALSE, axios |-> TRUE, audio |-> FALSE] :
              c \in {"ECONNABORTED", "ETIMEDOUT", "ECONNRESET"}}
    \cup {[status |-> 0, code |-> "", aborted |-> TRUE, axios |-> TRUE, audio |-> FALSE],
          [status |-> 0, code |-> "", aborted |-> FALSE, axios |-> FALSE, audio |-> FALSE]}

\* Mutant: status 503 is missing from the retryable statuses.
MakeRequestOnError_No503(r, retryCount) ==
    IF ~r.axios THEN "throw"
    ELSE IF r.status = 401 THEN "throw"
    ELSE IF r.status = 400 THEN "throw"
    ELSE IF /\ \/ r.code = "ECONNABORTED"
               \/ r.code = "ETIMEDOUT"
               \/ r.code = "ERR_BAD_RESPONSE"
               \/ r.aborted
               \/ r.status = 429
               \/ r.status = 500
            /\ retryCount < maxRetries
         THEN "retry"
         ELSE "throw"

\* Mutant: every error is retried while retries are left.
MakeRequestOnError_RetryAll(r, retryCount) ==
    IF retryCount < maxRetries THEN "retry" ELSE "throw"

\* The `catch` of makeRequest's loop body: "throw" or "retry".
MakeRequestOnError(r, retryCount) ==
    IF ~r.axios THEN "throw"
    ELSE IF r.status = 401 THEN "throw"
    ELSE IF r.status = 400 THEN "throw"
    ELSE IF /\ \/ r.code = "ECONNABORTED"
               \/ r.code = "ETIMEDOUT"
               \/ r.code = "ERR_BAD_RESPONSE"
               \/ r.aborted
               \/ r.status = 429
               \/ r.status = 500
               \/ r.status = 503
            /\ retryCount < maxRetries
         THEN "retry"
         ELSE "throw"

(***************************************************************************)
(* The texts handed to streamResponse.  A text acts on the coordinator     *)
(* only through chunks = splitTextIntoChunks(text) and, for each chunk,    *)
(* the number of sub-chunks convertToSpeech cuts it into, one makeRequest  *)
(* call each; a text is given here as that list of numbers.  NoText stands *)
(* for a value that is not a string, on which splitTextIntoChunks throws   *)
(* (text.length of undefined).                                             *)
(***************************************************************************)
NoText == <<-1>>
StreamTexts ==
    { <<>>,             \* more than chunkSize characters, all of them spaces
      <<1>>,            \* one short sentence
      <<0>>,            \* stripped characters only, such as '***'
      <<2, 0>>,         \* two sub-chunks, then a chunk of stripped characters
      <<1, 1, 1>>,      \* three chunks of one long sentence each
      NoText }

ChunkCount(t) == Len(t)
SubCount(t, i) == t[i + 1]

(***************************************************************************)
(* StreamingTTSService.streamResponse                                      *)
(***************************************************************************)
MaxStreams == 2
StreamIds == 1..MaxStreams
Sockets == {"s1", "s2"}

NoCall == [stream |-> 0]

IdleStream ==
    [pc |-> "idle", socket |-> "", text |-> NoText, i |-> 0, j |-> 0,
     retryCount |-> 0, reqs |-> 0, only503 |-> TRUE, fatalSeen |-> FALSE,
     exit |-> "", alone |-> TRUE]

StartEvent(s) ==
    [type |-> "stream:start", stream |-> s, index |-> -1, isLast |-> FALSE,
     code |-> "", message |-> ""]
ChunkEvent(s, i, isLast) ==
    [type |-> "stream:chunk", stream |-> s, index |-> i, isLast |-> isLast,
     code |-> "", message |-> ""]
EndEvent(s) ==
    [type |-> "stream:end", stream |-> s, index |-> -1, isLast |-> FALSE,
     code |-> "", message |-> ""]
ChunkErrorEvent(s, i) ==
    [type |-> "stream:error", stream |-> s, index |-> i, isLast |-> FALSE,
     code |-> "CHUNK_ERROR", message |-> "Failed to process chunk"]
StreamErrorEvent(s) ==
    [type |-> "stream:error", stream |-> s, index |-> -1, isLast |-> FALSE,
     code |-> "STREAM_ERROR", message |-> "Failed to process streaming response"]
CanceledEvent(s) ==
    [type |-> "stream:error", stream |-> s, index |-> -1, isLast |-> FALSE,
     code |-> "STREAM_ERROR",
     message |-> "Previous stream was canceled due to new request"]

\* Mutant: a stream found cancelled still signals its end.
LoopFrom_CancelEmitsEnd(s, sk, t, i, active) ==
    IF i >= ChunkCount(t)
    THEN [emit |-> <<EndEvent(s)>>, pc |-> "done", i |-> i, exit |-> "end"]
    ELSE IF sk \notin active
    THEN [emit |-> <<EndEvent(s)>>, pc |-> "done", i |-> i, exit |-> "cancelled"]
    ELSE IF SubCount(t, i) > 0
    THEN [emit |-> <<>>, pc |-> "request", i |-> i, exit |-> ""]
    ELSE [emit |-> <<>>, pc |-> "convert", i |-> i, exit |-> ""]

\* Mutant: the stream's end is followed by its STREAM_ERROR.
LoopFrom_EndThenError(s, sk, t, i, active) ==
    IF i >= ChunkCount(t)
    THEN [emit |-> <<EndEvent(s), StreamErrorEvent(s)>>, pc |-> "done", i |-> i,
          exit |-> "end"]
    ELSE IF sk \notin active
    THEN [emit |-> <<>>, pc |-> "done", i |-> i, exit |-> "cancelled"]
    ELSE IF SubCount(t, i) > 0
    THEN [emit |-> <<>>, pc |-> "request", i |-> i, exit |-> ""]
    ELSE [emit |-> <<>>, pc |-> "convert", i |-> i, exit |-> ""]

\* The chunk loop from the top of iteration i up to its next await (or its
\* return): what it emits and where it stops.  `active` is activeStreams.
\* The loop always stops at `await ttsService.convertToSpeech(chunk)`: at
\* "request" when the chunk has a sub-chunk to request, at "convert" when it
\* has none and convertToSpeech returns without a request.
LoopFrom(s, sk, t, i, active) ==
    IF i >= ChunkCount(t)
    THEN [emit |-> <<EndEvent(s)>>, pc |-> "done", i |-> i, exit |-> "end"]
    ELSE IF sk \notin active
    THEN [emit |-> <<>>, pc |-> "done", i |-> i, exit |-> "cancelled"]
    ELSE IF SubCount(t, i) > 0
    THEN [emit |-> <<>>, pc |-> "request", i |-> i, exit |-> ""]
    ELSE [emit |-> <<>>, pc |-> "convert", i |-> i, exit |-> ""]

\* The body of the outer try for a text that is a string, from the chunk
\* loop's iteration i on, after `before` has been emitted.
ContinueStream(s, i, before) ==
    LET me == streams[s]
        r == LoopFrom(s, me.socket, me.text, i, activeStreams)
    IN  /\ events' = [events EXCEPT ![me.socket] = @ \o before \o r.emit]
        /\ streams' = [streams EXCEPT ![s] =
               [me EXCEPT !.pc = r.pc, !.i = r.i, !.exit = r.exit, !.j = 0,
                          !.retryCount = 0,
                          !.reqs = IF audit /\ r.pc = "request" THEN 1 ELSE 0,
                          !.only503 = TRUE, !.fatalSeen = FALSE]]
        \* finally: this.activeStreams.delete(socket.id)
        /\ activeStreams' = IF r.pc = "done" THEN activeStreams \ {me.socket}
                            ELSE activeStreams

\* Mutant: the chunk loop's catch emits nothing.
ChunkFailed_Silent(s) == ContinueStream(s, streams[s].i + 1, <<>>)

\* Mutant: the chunk loop's catch reports the chunk and rethrows to the outer
\* catch.
ChunkFailed_Escalates(s) ==
    /\ events' = [events EXCEPT ![streams[s].socket] =
                     @ \o <<ChunkErrorEvent(s, streams[s].i), StreamErrorEvent(s)>>]
    /\ streams' = [streams EXCEPT ![s].pc = "done", ![s].exit = "error"]
    /\ activeStreams' = activeStreams \ {streams[s].socket}

\* The chunk loop's catch: CHUNK_ERROR, then the next iteration.
ChunkFailed(s) == ContinueStream(s, streams[s].i + 1, <<ChunkErrorEvent(s, streams[s].i)>>)

\* convertToSpeech returned: stream:chunk with id `${streamId}-${index}` and
\* the given isLast, then the delay or the loop's end.
ChunkSynthesizedWith(s, index, flag) ==
    LET me == streams[s]
        isLast == me.i = ChunkCount(me.text) - 1
    IN  IF isLast
        THEN ContinueStream(s, me.i + 1, <<ChunkEvent(s, index, flag)>>)
        ELSE /\ events' = [events EXCEPT ![me.socket] =
                              Append(@, ChunkEvent(s, index, flag))]
             /\ streams' = [streams EXCEPT ![s].pc = "delay"]
             /\ UNCHANGED activeStreams

\* Mutant: the chunk id is built from i + 1.
ChunkSynthesized_OffByOne(s) ==
    ChunkSynthesizedWith(s, streams[s].i + 1,
                         streams[s].i = ChunkCount(streams[s].text) - 1)

ChunkSynthesized(s) ==
    ChunkSynthesizedWith(s, streams[s].i,
                         streams[s].i = ChunkCount(streams[s].text) - 1)

\* streamResponse(socket, text) is called: everything up to its first await.
StreamResponse(s, sk, t) ==
    /\ streams[s].pc = "idle"
    /\ \A u \in StreamIds : u < s => streams[u].pc # "idle"
    /\ closed' = NoCall
    /\ LET running == {u \in StreamIds :
                          streams[u].socket = sk /\ streams[u].pc \notin {"idle", "done"}}
           notice == IF sk \in activeStreams THEN <<CanceledEvent(s)>> ELSE <<>>
           r == IF t = NoText
                THEN [emit |-> <<StreamErrorEvent(s)>>, pc |-> "done", i |-> 0,
                      exit |-> "error"]
                ELSE LoopFrom(s, sk, t, 0, activeStreams \cup {sk})
       IN  /\ events' = [events EXCEPT ![sk] = @ \o notice \o <<StartEvent(s)>> \o r.emit]
           /\ streams' = [u \in StreamIds |->
                  IF u = s
                  THEN [IdleStream EXCEPT !.pc = r.pc, !.socket = sk, !.text = t,
                                          !.i = r.i, !.exit = r.exit,
                                          !.reqs = IF audit /\ r.pc = "request" THEN 1 ELSE 0,
                                          !.alone = (running = {})]
                  ELSE IF u \in running THEN [streams[u] EXCEPT !.alone = FALSE]
                  ELSE streams[u]]
           /\ activeStreams' = IF r.pc = "done" THEN activeStreams \ {sk}
                               ELSE activeStreams \cup {sk}

\* What is recorded of a makeRequest call when it returns or throws.
CallSummary(s, only503, fatal, ok, audio) ==
    IF ~audit THEN NoCall
    ELSE [stream |-> s, i |-> streams[s].i, reqs |-> streams[s].reqs,
          fatal |-> fatal, only503 |-> only503, ok |-> ok, audio |-> audio]

\* The backend answers the request in flight of stream s with r.
Respond(s, r) ==
    LET me == streams[s]
    IN  /\ me.pc = "request"
        /\ IF r.status = 200
           THEN /\ closed' = CallSummary(s, FALSE, FALSE, TRUE, r.audio)
                /\ IF me.j < SubCount(me.text, me.i) - 1
                   THEN /\ streams' = [streams EXCEPT ![s].pc = "subdelay"]
                        /\ UNCHANGED <<events, activeStreams>>
                   ELSE ChunkSynthesized(s)
           ELSE IF MakeRequestOnError(r, me.retryCount) = "retry"
           THEN /\ closed' = NoCall
                /\ streams' = [streams EXCEPT ![s].pc = "backoff",
                                              ![s].retryCount = @ + 1,
                                              ![s].only503 = @ /\ (audit => r.status = 503),
                                              ![s].fatalSeen =
                                                  @ \/ (audit /\ r.status \in {400, 401})]
                /\ UNCHANGED <<events, activeStreams>>
           ELSE /\ closed' = CallSummary(s, me.only503 /\ r.status = 503,
                                         r.status \in {400, 401}, FALSE, FALSE)
                /\ ChunkFailed(s)

\* The retry delay has passed: `continue`, the while condition, and the
\* request again (or the throw after the loop).
RetryRequest(s) ==
    /\ streams[s].pc = "backoff"
    /\ IF streams[s].retryCount <= maxRetries
       THEN /\ streams' = [streams EXCEPT ![s].pc = "request",
                                          ![s].reqs = IF audit THEN @ + 1 ELSE 0]
            /\ closed' = NoCall
            /\ UNCHANGED <<events, activeStreams>>
       ELSE /\ closed' = CallSummary(s, streams[s].only503, FALSE, FALSE, FALSE)
            /\ ChunkFailed(s)

\* The 500 ms between two sub-chunks have passed: makeRequest for the next.
NextSubChunk(s) ==
    /\ streams[s].pc = "subdelay"
    /\ streams' = [streams EXCEPT ![s].pc = "request", ![s].j = @ + 1,
                                  ![s].retryCount = 0,
                                  ![s].reqs = IF audit THEN 1 ELSE 0,
                                  ![s].only503 = TRUE, ![s].fatalSeen = FALSE]
    /\ closed' = NoCall
    /\ UNCHANGED <<events, activeStreams>>

\* convertToSpeech of a chunk without sub-chunks has returned: the await in
\* the chunk loop resumes.
ConvertToSpeechReturned(s) ==
    /\ streams[s].pc = "convert"
    /\ closed' = NoCall
    /\ ChunkSynthesized(s)

\* The 100 ms after a chunk have passed: the next iteration of the loop.
NextChunkIteration(s) ==
    /\ streams[s].pc = "delay"
    /\ closed' = NoCall
    /\ ContinueStream(s, streams[s].i + 1, <<>>)

(***************************************************************************)
(* WebSocketService.handleChatMessage: one invocation per chat message.    *)
(* The completion stream delivers `tokens` content deltas; each is sent    *)
(* to the socket as a chat:response carrying the content so far, given     *)
(* here as the number of deltas in it.  `sentAt` holds the positions of    *)
(* the invocation's chat:response events among the socket's events,        *)
(* `stream` the streamResponse invocation it made, 0 before.               *)
(***************************************************************************)
MaxTokens == 2
ChatIds == 1..MaxStreams
ChatTexts == StreamTexts \ {NoText}

IdleChat ==
    [pc |-> "idle", socket |-> "", tokens |-> 0, sent |-> 0, sentAt |-> {}, stream |-> 0]

StatusEvent(processing) ==
    [type |-> "chat:status", stream |-> 0, index |-> -1, isLast |-> FALSE,
     code |-> "", message |-> IF processing THEN "processing" ELSE "ready"]
ResponseEvent(content) ==
    [type |-> "chat:response", stream |-> 0, index |-> content, isLast |-> FALSE,
     code |-> "", message |-> ""]
\* What handleChatMessage can catch: a value is given by its string
\* properties among `error` and `code`.  addMessageToSession throws an Error,
\* which has neither.
SessionError == [p \in {} |-> ""]

\* What generateStreamingResponse throws.  A value with a code passes through
\* its catch: the completion stream failing with an API error (here a rate
\* limit), and anything else failing in the generator, the creation of the
\* stream and the save of the complete message included.  A value without a
\* code is wrapped: no message was generated, or the session could not be
\* read.
NoResponseError ==
    [error |-> "Failed to generate streaming response", code |-> "AI_SERVICE_ERROR"]
GenerationErrors ==
    { NoResponseError,
      [error |-> "Rate limit reached", code |-> "AI_SERVICE_ERROR"],
      [error |-> "An unexpected error occurred", code |-> "SERVER_ERROR"] }

\* handleError: the chat:error built from the value caught.
handleError(thrown) ==
    [type |-> "chat:error", stream |-> 0, index |-> -1, isLast |-> FALSE,
     code |-> IF "code" \in DOMAIN thrown THEN thrown.code ELSE "UNKNOWN_ERROR",
     message |-> IF "error" \in DOMAIN thrown THEN thrown.error ELSE "An error occurred"]

\* catch: handleError, then finally: the status with processing false.
ChatFails(m, thrown) ==
    /\ events' = [events EXCEPT ![chats[m].socket] =
                     @ \o <<handleError(thrown), StatusEvent(FALSE)>>]
    /\ chats' = [chats EXCEPT ![m].pc = "done"]
    /\ UNCHANGED <<activeStreams, streams, closed>>

\* A chat message arrives on socket sk: the status, then the await of
\* addMessageToSession.
HandleChatMessage(m, sk, n) ==
    /\ chats[m].pc = "idle"
    /\ \A u \in ChatIds : u < m => chats[u].pc # "idle"
    /\ events' = [events EXCEPT ![sk] = Append(@, StatusEvent(TRUE))]
    /\ chats' = [chats EXCEPT ![m] = [IdleChat EXCEPT !.pc = "saving", !.socket = sk,
                                                      !.tokens = n]]
    /\ UNCHANGED <<activeStreams, streams, closed>>

UserMessageSaved(m, ok) ==
    /\ chats[m].pc = "saving"
    /\ IF ok
       THEN /\ chats' = [chats EXCEPT ![m].pc = "generating"]
            /\ UNCHANGED <<activeStreams, streams, events, closed>>
       ELSE ChatFails(m, SessionError)

\* onToken: lastContent += token, and the chat:response with lastContent.
TokenArrives(m) ==
    /\ chats[m].pc = "generating"
    /\ chats[m].sent < chats[m].tokens
    /\ events' = [events EXCEPT ![chats[m].socket] =
                     Append(@, ResponseEvent(chats[m].sent + 1))]
    /\ chats' = [chats EXCEPT ![m].sent = @ + 1,
                              ![m].sentAt = @ \cup {Len(events[chats[m].socket]) + 1}]
    /\ UNCHANGED <<activeStreams, streams, closed>>

\* generateStreamingResponse throws.  Once a delta has been delivered a
\* message was generated and the session was read.
GenerationFails(m, thrown) ==
    /\ chats[m].pc = "generating"
    /\ thrown = NoResponseError => chats[m].sent = 0
    /\ ChatFails(m, thrown)

\* Mutant: streamResponse is called while deltas are still to come.
GenerationComplete_Early(m) == chats[m].tokens > 0

\* generateStreamingResponse returns its last message: the completion
\* stream has ended and has delivered at least one delta.
GenerationComplete(m) == chats[m].tokens > 0 /\ chats[m].sent = chats[m].tokens

\* generateStreamingResponse has returned: streamResponse is called with
\* the content, up to its first await.
ResponseGenerated(m, s, t) ==
    /\ chats[m].pc = "generating"
    /\ GenerationComplete(m)
    /\ StreamResponse(s, chats[m].socket, t)
    /\ chats' = [chats EXCEPT ![m].pc = "streaming", ![m].stream = s]

\* streamResponse has returned: the await of the final addMessageToSession.
StreamReturned(m) ==
    /\ chats[m].pc = "streaming"
    /\ streams[chats[m].stream].pc = "done"
    /\ chats' = [chats EXCEPT ![m].pc = "final"]
    /\ UNCHANGED <<activeStreams, streams, events, closed>>

FinalMessageSaved(m, ok) ==
    /\ chats[m].pc = "final"
    /\ IF ok
       THEN /\ events' = [events EXCEPT ![chats[m].socket] = Append(@, StatusEvent(FALSE))]
            /\ chats' = [chats EXCEPT ![m].pc = "done"]
            /\ UNCHANGED <<activeStreams, streams, closed>>
       ELSE ChatFails(m, SessionError)

(***************************************************************************)
(* WebSocketService.setupEventHandlers: the 'connection' handler and the   *)
(* handlers it registers on the socket.  A socket id names one connection: *)
(* the id of a new connection is one on which nothing has happened.  The   *)
(* chat:message and chat:audio handlers both await handleChatMessage,      *)
(* which is HandleChatMessage above; it catches what it awaits.  The       *)
(* chat:audio handler reads data.text first, inside its own try.           *)
(* broadcastMessage and disconnectAll are the service's public methods.    *)
(***************************************************************************)
MaxBroadcasts == 1
MaxHandlerErrors == 1

\* The 'connection' handler: the socket is remembered.  It emits nothing.
Connect(sk) ==
    /\ sk \notin activeConnections
    /\ events[sk] = <<>>
    /\ \A s \in StreamIds : streams[s].socket # sk
    /\ \A m \in ChatIds : chats[m].socket # sk
    /\ activeConnections' = activeConnections \cup {sk}
    /\ UNCHANGED <<activeStreams, streams, events, closed, chats>>

\* What the speech:start, speech:end and chat:typing handlers emit: the
\* speech events, and a chat:status that carries the typing flag.
BroadcastEvents ==
    { [type |-> ty, stream |-> 0, index |-> -1, isLast |-> FALSE, code |-> "",
       message |-> ""] : ty \in {"speech:start", "speech:end"} }
    \cup
    { [type |-> "chat:status", stream |-> 0, index |-> -1, isLast |-> FALSE,
       code |-> "", message |-> typing] : typing \in {"typing", "not typing"} }

\* What broadcastMessage(event, data) is called with: any event name and
\* payload, here the events above and a chat:error.
MessagesToAll ==
    BroadcastEvents
    \cup
    { [type |-> "chat:error", stream |-> 0, index |-> -1, isLast |-> FALSE,
       code |-> "SERVER_ERROR", message |-> "maintenance"] }

\* The broadcasts received so far on socket sk.
Broadcasts(sk) == Len(SelectSeq(events[sk], LAMBDA e : e \in MessagesToAll))

\* The chat:error events emitted so far on socket sk.
ChatErrors(sk) == Len(SelectSeq(events[sk], LAMBDA e : e.type = "chat:error"))

\* A chat:audio event without payload is handled on socket sk: data.text
\* throws a TypeError, a value with neither `error` nor `code`, before
\* handleChatMessage is called, and the handler's catch hands it to
\* handleError.  No chat:status is emitted.
ChatAudioWithoutPayload(sk) ==
    /\ sk \in activeConnections
    /\ \A o \in Sockets : ChatErrors(o) < MaxHandlerErrors
    /\ events' = [events EXCEPT ![sk] = Append(@, handleError([p \in {} |-> ""]))]
    /\ UNCHANGED <<activeStreams, streams, closed, chats, activeConnections>>

\* broadcastMessage(event, data): io.emit sends ev to every connected socket.
BroadcastMessage(ev) ==
    /\ \A o \in Sockets : Broadcasts(o) < MaxBroadcasts
    /\ events' = [o \in Sockets |->
                      IF o \in activeConnections THEN Append(events[o], ev) ELSE events[o]]
    /\ UNCHANGED <<activeStreams, streams, closed, chats, activeConnections>>

\* disconnectAll(): io.disconnectSockets() closes every connection, and the
\* 'disconnect' handler of each runs within the call.
DisconnectAll ==
    /\ activeConnections' = {}
    /\ UNCHANGED <<activeStreams, streams, events, closed, chats>>

\* A speech:start, speech:end or chat:typing event of socket sk is handled:
\* socket.broadcast.emit sends ev to every other connected socket.
Broadcast(sk, ev) ==
    LET others == activeConnections \ {sk}
    IN  /\ sk \in activeConnections
        /\ \A o \in Sockets : Broadcasts(o) < MaxBroadcasts
        /\ events' = [o \in Sockets |->
                          IF o \in others THEN Append(events[o], ev) ELSE events[o]]
        /\ UNCHANGED <<activeStreams, streams, closed, chats, activeConnections>>

\* The 'disconnect' handler of a socket: the connection is forgotten.
Disconnect(sk) ==
    /\ sk \in activeConnections
    /\ activeConnections' = activeConnections \ {sk}
    /\ UNCHANGED <<activeStreams, streams, events, closed, chats>>

(***************************************************************************)
(* AudioQueueManager (client).  An await is an entry of `pending`; its     *)
(* continuation is a later action.  A buffer source is "playing" from      *)
(* start(0) until it is stopped or its buffer runs out, then "stopped"     *)
(* until its ended event is delivered, then "ended": the platform delivers *)
(* the ended event of a source that stop() stopped as well.  A source      *)
(* records in `at` how many calls `asked` held when it was started.        *)
(***************************************************************************)
MaxCalls == 4
MaxSources == 4
maxQueueSize == 10

ChunkIdSet == {"c1", "c2"}
AudioKinds == {"url", "blob"}
QueueSizes == {2, maxQueueSize}
NoSource == 0

BlobTask(c) == [kind |-> "urlToBlob", chunk |-> c]
DecodeTask(c) == [kind |-> "decode", chunk |-> c]
\* An error handed to handleError: its code and details, and the chunk of the
\* call or decode that failed.
QueueError(code, c, details) == [code |-> code, chunk |-> c, details |-> details]

Await(t) == pending (+) SetToBag({t})
Resume1(t) == pending (-) SetToBag({t})

\* source.stop(): a source that is playing stops; its ended event is due.
StopSource(srcs, i) ==
    IF i # NoSource /\ srcs[i].state = "playing"
    THEN [srcs EXCEPT ![i].state = "stopped"]
    ELSE srcs

\* playNextChunk as far as its first await, called with the queue q and the
\* flag p: the new isPlaying and the awaits it starts.
PlayNextChunk(q, p) ==
    IF audioContext = "null" \/ ~p \/ Len(q) = 0
    THEN [isPlaying |-> FALSE, awaits |-> EmptyBag]
    ELSE [isPlaying |-> p, awaits |-> SetToBag({DecodeTask(q[1])})]

\* startPlayback, called with the queue q.
StartPlayback(q) ==
    IF audioContext = "null" \/ isPlaying \/ Len(q) = 0
    THEN [isPlaying |-> isPlaying, awaits |-> EmptyBag]
    ELSE PlayNextChunk(q, TRUE)

\* enqueueChunk from queue.push on; rest is `pending` without the await that
\* this continuation resumed from, if any.
PushChunk(c, rest) ==
    LET q == Append(queue, c)
        sp == IF ~isPlaying THEN StartPlayback(q)
              ELSE [isPlaying |-> isPlaying, awaits |-> EmptyBag]
    IN  /\ queue' = q
        /\ isPlaying' = sp.isPlaying
        /\ pending' = rest (+) sp.awaits
        /\ UNCHANGED reported

\* Mutant: a full queue drops its oldest entry to take the new chunk.
RejectFull_DropsOldest(c) ==
    /\ reported' = Append(reported, QueueError("QUEUE_FULL", c, "Audio queue is full"))
    /\ queue' = Append(Tail(queue), c)
    /\ UNCHANGED <<isPlaying, pending>>

\* enqueueChunk on a full queue: the throw, caught by its own catch.
RejectFull(c) ==
    /\ reported' = Append(reported, QueueError("QUEUE_FULL", c, "Audio queue is full"))
    /\ UNCHANGED <<queue, isPlaying, pending>>

\* enqueueChunk(chunk) up to its first await.
EnqueueChunk(c, kind) ==
    /\ calls < MaxCalls
    /\ calls' = calls + 1
    /\ IF Len(queue) >= config
       THEN RejectFull(c)
       ELSE IF \E k \in DOMAIN queue : queue[k] = c
       THEN UNCHANGED <<queue, isPlaying, pending, reported>>
       ELSE IF kind = "url"
       THEN /\ pending' = Await(BlobTask(c))
            /\ UNCHANGED <<queue, isPlaying, reported>>
       ELSE PushChunk(c, pending)
    /\ asked' = Append(asked, c)
    /\ UNCHANGED <<audioContext, contextTasks, config, currentSource, sources>>

\* urlToBlob settles: enqueueChunk resumes at the push, or in its catch.
BlobConverted(c, ok) ==
    /\ BagIn(BlobTask(c), pending)
    /\ IF ok
       THEN PushChunk(c, Resume1(BlobTask(c)))
       ELSE /\ reported' = Append(reported,
                                  QueueError("QUEUE_FULL", c, "urlToBlob failed"))
            /\ pending' = Resume1(BlobTask(c))
            /\ UNCHANGED <<queue, isPlaying>>
    /\ UNCHANGED <<audioContext, contextTasks, config, currentSource, sources, calls, asked>>

\* createAudioBuffer settles: playNextChunk resumes after its await, or in
\* its catch.
AudioDecoded(c, ok) ==
    /\ BagIn(DecodeTask(c), pending)
    /\ IF ok
       THEN /\ Len(sources) < MaxSources
            /\ sources' = Append(StopSource(sources, currentSource),
                                 [chunk |-> c, state |-> "playing", at |-> Len(asked)])
            /\ currentSource' = Len(sources) + 1
            /\ pending' = Resume1(DecodeTask(c))
            /\ UNCHANGED <<queue, isPlaying, reported>>
       ELSE LET q == IF Len(queue) > 0 THEN Tail(queue) ELSE queue
                pn == PlayNextChunk(q, isPlaying)
            IN  /\ reported' = Append(reported,
                                       QueueError("PLAYBACK_ERROR", c, "Audio processing failed"))
                /\ queue' = q
                /\ isPlaying' = pn.isPlaying
                /\ pending' = Resume1(DecodeTask(c)) (+) pn.awaits
                /\ UNCHANGED <<currentSource, sources>>
    /\ UNCHANGED <<audioContext, contextTasks, config, calls, asked>>

\* The buffer of a playing source runs out.  The context renders when its
\* state says so, and may already render when a resume() is yet to set the
\* state: rendering starts before the state is set.
PlaybackFinishes(i) ==
    /\ i \in DOMAIN sources
    /\ sources[i].state = "playing"
    /\ \/ audioContext = "running"
       \/ \E k \in DOMAIN contextTasks : contextTasks[k] = "running"
    /\ sources' = [sources EXCEPT ![i].state = "stopped"]
    /\ UNCHANGED <<audioContext, contextTasks, config, queue, isPlaying, currentSource,
                   pending, reported, calls, asked>>

\* The onended handler of source i, set by playNextChunk for its chunk.
OnEnded(i) ==
    /\ i \in DOMAIN sources
    /\ sources[i].state = "stopped"
    /\ LET q == IF Len(queue) > 0 /\ queue[1] = sources[i].chunk
                THEN Tail(queue) ELSE queue
           pn == IF Len(q) > 0 THEN PlayNextChunk(q, isPlaying)
                 ELSE [isPlaying |-> FALSE, awaits |-> EmptyBag]
       IN  /\ sources' = [sources EXCEPT ![i].state = "ended"]
           /\ queue' = q
           /\ currentSource' = NoSource
           /\ isPlaying' = pn.isPlaying
           /\ pending' = pending (+) pn.awaits
    /\ UNCHANGED <<audioContext, contextTasks, config, reported, calls, asked>>

\* The body of stop().
StopBody ==
    /\ sources' = StopSource(sources, currentSource)
    /\ currentSource' = NoSource
    /\ queue' = <<>>
    /\ isPlaying' = FALSE

Stop ==
    /\ calls < MaxCalls
    /\ calls' = calls + 1
    /\ StopBody
    /\ asked' = Append(asked, "stop")
    /\ UNCHANGED <<audioContext, contextTasks, config, pending, reported>>

\* clear(): stop(), then the queue is emptied again.
Clear ==
    /\ calls < MaxCalls
    /\ calls' = calls + 1
    /\ StopBody
    /\ asked' = Append(asked, "clear")
    /\ UNCHANGED <<audioContext, contextTasks, config, pending, reported>>

\* Mutant: pause() also drops the queue, as stop() does.
Pause_DropsQueue ==
    /\ calls < MaxCalls
    /\ calls' = calls + 1
    /\ contextTasks' = IF audioContext = "running" THEN Append(contextTasks, "suspended")
                       ELSE contextTasks
    /\ queue' = <<>>
    /\ isPlaying' = FALSE
    /\ UNCHANGED <<audioContext, config, currentSource, sources, pending, reported,
                   asked>>

\* pause(): suspend() is called when the state reads 'running'.  The call
\* returns at once; the platform sets the context's state in a task of its
\* own, after the caller has run on.
Pause ==
    /\ calls < MaxCalls
    /\ calls' = calls + 1
    /\ contextTasks' = IF audioContext = "running" THEN Append(contextTasks, "suspended")
                       ELSE contextTasks
    /\ UNCHANGED <<audioContext, config, queue, isPlaying, currentSource, sources,
                   pending, reported, asked>>

\* resume(): resume() is called when the state reads 'suspended'.
Resume ==
    /\ calls < MaxCalls
    /\ calls' = calls + 1
    /\ contextTasks' = IF audioContext = "suspended" THEN Append(contextTasks, "running")
                       ELSE contextTasks
    /\ UNCHANGED <<audioContext, config, queue, isPlaying, currentSource, sources,
                   pending, reported, asked>>

\* The platform's task for the oldest suspend() or resume() call still to
\* take effect: the context's state is set.
ContextStateSet ==
    /\ contextTasks # <<>>
    /\ audioContext' = Head(contextTasks)
    /\ contextTasks' = Tail(contextTasks)
    /\ UNCHANGED <<config, queue, isPlaying, currentSource, sources, pending,
                   reported, calls, asked>>

\* The manager after construction, with the default configuration.
QueueIdle ==
    /\ audioContext = "running"
    /\ contextTasks = <<>>
    /\ config = maxQueueSize
    /\ queue = <<>>
    /\ isPlaying = FALSE
    /\ currentSource = NoSource
    /\ sources = <<>>
    /\ pending = EmptyBag
    /\ reported = <<>>
    /\ calls = 0
    /\ asked = <<>>

(***************************************************************************)
(* The client's AudioRecorder: startRecording, stopRecording and           *)
(* cancelRecording, the completions of their awaits, the frames of the     *)
(* silence detection loop and the silence timer.                           *)
(*                                                                         *)
(* Time is in milliseconds.  The analyser's level is the average that      *)
(* checkSilence computes, an integer in 0..255; it holds for one tick.     *)
(* lastAudioLevel is kept as an integer number of 1/LevelScale, so that    *)
(* the decay 0.3 * average + 0.7 * lastAudioLevel is computed exactly.     *)
(* A reference of the recorder (mediaRecorder, silenceTimer) is an index   *)
(* into the objects created so far, 0 for null; speechStartTime is 0 for   *)
(* null, which is also how the code tests it.  audioContext tells whether  *)
(* the field holds a context, and closing whether close() has been called  *)
(* on that context.                                                        *)
(***************************************************************************)
TickMs == 250
MaxTime == 1500
MaxUpdates == 2
MaxRecCalls == 3
MaxRecorders == 3
MaxTimers == 2

LevelScale == 10 ^ MaxUpdates
Levels == {0, 15, 200}

minSpeechLength == 500
defaultSilenceThreshold == 1500

Larger(a, b) == IF a >= b THEN a ELSE b

\* The state of the recorder and of the objects it has created, as one
\* value, so that a method is an operator from one such value to the next.
Machine ==
    [recorder |-> recorder, mediaRecorders |-> mediaRecorders, timers |-> timers,
     frames |-> frames, tasks |-> tasks, marks |-> marks]

Becomes(m) ==
    /\ recorder' = m.recorder
    /\ mediaRecorders' = m.mediaRecorders
    /\ timers' = m.timers
    /\ frames' = m.frames
    /\ tasks' = m.tasks
    /\ marks' = m.marks

RecorderTask(at, restart, id) == [at |-> at, restart |-> restart, id |-> id]

\* this.mediaRecorder?.state
MediaRecorderState(m) ==
    IF m.recorder.mediaRecorder = 0 THEN "undefined"
    ELSE m.mediaRecorders[m.recorder.mediaRecorder].state

\* if (this.silenceTimer) { clearTimeout(this.silenceTimer); this.silenceTimer = null; }
ClearSilenceTimer(m) ==
    IF m.recorder.silenceTimer = 0 THEN m
    ELSE [m EXCEPT !.timers[m.recorder.silenceTimer].state =
                        IF @ = "armed" THEN "cleared" ELSE @,
                   !.recorder.silenceTimer = 0]

\* if (this.lastAudioLevel === 0) this.lastAudioLevel = average
InitialLevel(average, last) == IF last = 0 THEN average * LevelScale ELSE last

\* 100 * LevelScale * Math.max(6, this.lastAudioLevel * 0.15)
SilenceThreshold(last) == Larger(600 * LevelScale, 15 * last)

\* average < silenceThreshold
IsSilent(average, last) == average * 100 * LevelScale < SilenceThreshold(last)

\* average > speechThreshold, with speechThreshold = silenceThreshold * 1.8
HasSpeech(average, last) == average * 1000 * LevelScale > 18 * SilenceThreshold(last)

\* average * 0.3 + this.lastAudioLevel * 0.7
Decay(average, last) ==
    IF last = 0 THEN average * LevelScale
    ELSE (3 * average * LevelScale + 7 * last) \div 10

\* Whether the decayed level is a whole number of 1/LevelScale.
DecayIsExact(average, last) ==
    last = 0 \/ (3 * average * LevelScale + 7 * last) % 10 = 0

\* Math.max(minSilenceDuration, silenceTime * 0.5)
SilenceDelay(hasDetectedSpeech, silenceTime) ==
    Larger(IF hasDetectedSpeech THEN 400 ELSE 800, silenceTime \div 2)

\* checkSilence, if (hasSpeech): the first speech sample of the recording
\* records its time; every speech sample clears the silence timer.
SpeechSample(m, t) ==
    ClearSilenceTimer(
        IF m.recorder.hasDetectedSpeech THEN m
        ELSE [m EXCEPT !.recorder.hasDetectedSpeech = TRUE,
                       !.recorder.speechStartTime = t])

\* checkSilence, if (isSilent && this.hasDetectedSpeech): arm the timer.
SilentSample(m, t, delay) ==
    LET speechDuration == IF m.recorder.speechStartTime # 0
                          THEN t - m.recorder.speechStartTime ELSE 0
    IN  IF m.recorder.silenceTimer = 0 /\ speechDuration >= minSpeechLength
        THEN [m EXCEPT !.timers = Append(@, [due |-> t + delay, state |-> "armed"]),
                       !.recorder.silenceTimer = Len(m.timers) + 1]
        ELSE m

\* Mutant: a sample that is not silent leaves the silence timer armed.
SoundSample_KeepsTimer(m, average) ==
    [m EXCEPT !.recorder.lastAudioLevel = Decay(average, @)]

\* checkSilence, the else branch: decay the baseline, clear the timer.
SoundSample(m, average) ==
    ClearSilenceTimer([m EXCEPT !.recorder.lastAudioLevel = Decay(average, @)])

\* Whether checkSilence gets past its first test.
Listens(m) == m.recorder.isListening /\ MediaRecorderState(m) = "recording"

\* Mutant: one threshold only, every sample that is not speech is silent.
checkSilence_SingleThreshold(m, t, average) ==
    IF ~Listens(m) THEN m
    ELSE IF ~m.recorder.audioContext
    THEN [m EXCEPT !.frames = @ + 1]
    ELSE LET last == InitialLevel(average, m.recorder.lastAudioLevel)
             delay == SilenceDelay(m.recorder.hasDetectedSpeech, defaultSilenceThreshold)
             m1 == [m EXCEPT !.recorder.lastAudioLevel = last,
                             !.marks.sampled = ~@]
             m2 == IF HasSpeech(average, last) THEN SpeechSample(m1, t) ELSE m1
             m3 == IF ~HasSpeech(average, last) /\ m2.recorder.hasDetectedSpeech
                   THEN SilentSample(m2, t, delay)
                   ELSE SoundSample(m2, average)
         IN  [m3 EXCEPT !.frames = @ + 1]

\* One run of checkSilence at time t with the analyser at `average`.
checkSilence(m, t, average) ==
    IF ~Listens(m) THEN m
    ELSE IF ~m.recorder.audioContext
    THEN \* this.analyser is null: the TypeError is caught, the loop goes on
         [m EXCEPT !.frames = @ + 1]
    ELSE LET last == InitialLevel(average, m.recorder.lastAudioLevel)
             delay == SilenceDelay(m.recorder.hasDetectedSpeech, defaultSilenceThreshold)
             m1 == [m EXCEPT !.recorder.lastAudioLevel = last,
                             !.marks.sampled = ~@]
             m2 == IF HasSpeech(average, last) THEN SpeechSample(m1, t) ELSE m1
             m3 == IF IsSilent(average, last) /\ m2.recorder.hasDetectedSpeech
                   THEN SilentSample(m2, t, delay)
                   ELSE SoundSample(m2, average)
         IN  [m3 EXCEPT !.frames = @ + 1]

\* Whether that run stays within the levels and timers of the model.
WithinModel(m, average) ==
    \/ ~Listens(m)
    \/ ~m.recorder.audioContext
    \/ LET last == InitialLevel(average, m.recorder.lastAudioLevel)
       IN  IF IsSilent(average, last) /\ m.recorder.hasDetectedSpeech
           THEN Len(m.timers) < MaxTimers
           ELSE DecayIsExact(average, last)

startSilenceDetection(m, t, average) ==
    IF ~m.recorder.audioContext THEN m
    ELSE checkSilence([m EXCEPT !.recorder.isListening = TRUE], t, average)

\* startRecording from `new MediaRecorder` on.  Without a stream the
\* constructor throws; the restart of stopRecording then gives up listening.
BeginRecording(m, restart) ==
    IF ~m.recorder.stream
    THEN IF restart THEN [m EXCEPT !.recorder.isListening = FALSE] ELSE m
    ELSE LET m1 == ClearSilenceTimer(m)
         IN  [m1 EXCEPT !.mediaRecorders = Append(@, [state |-> "recording", onstop |-> "none",
                                                         current |-> TRUE]),
                        !.recorder.mediaRecorder = Len(m.mediaRecorders) + 1,
                        !.recorder.isListening = TRUE,
                        !.recorder.hasDetectedSpeech = FALSE,
                        !.recorder.speechStartTime = 0,
                        !.recorder.lastAudioLevel = 0,
                        !.marks.loudMs = 0,
                        !.marks.dip = FALSE,
                        !.marks.speechMs = 0]

startRecording(m, restart) ==
    IF ~m.recorder.stream \/ ~m.recorder.audioContext
    THEN [m EXCEPT !.tasks = @ (+) SetToBag({RecorderTask("getUserMedia", restart, 0)})]
    ELSE BeginRecording(m, restart)

\* this.mediaRecorder.stop(): an inactive recorder throws, a recording one
\* becomes inactive and gets its stop event later.
StopMediaRecorder(m) ==
    LET id == m.recorder.mediaRecorder
    IN  IF m.mediaRecorders[id].state = "recording"
        THEN [m EXCEPT !.mediaRecorders[id].state = "inactive",
                       !.mediaRecorders[id].current = FALSE,
                       !.tasks = @ (+) SetToBag({RecorderTask("stop", FALSE, id)})]
        ELSE m

stopRecording(m) ==
    IF m.recorder.mediaRecorder = 0 THEN m
    ELSE LET wasListening == m.recorder.isListening
             m1 == ClearSilenceTimer(m)
             m2 == [m1 EXCEPT !.recorder.isListening = FALSE,
                              !.mediaRecorders[m.recorder.mediaRecorder].onstop =
                                   IF wasListening THEN "restart" ELSE "settle"]
         IN  StopMediaRecorder(m2)

\* if (this.stream) { this.stream.getTracks().forEach(track => track.stop());
\* this.stream = null; }  A MediaRecorder still recording the stream is
\* inactivated by the platform, in a task of its own, once the tracks have
\* ended.
StopTracks(m) ==
    IF ~m.recorder.stream THEN m
    ELSE LET hit == {i \in DOMAIN m.mediaRecorders :
                        m.mediaRecorders[i].current /\ m.mediaRecorders[i].state = "recording"}
         IN  [m EXCEPT !.recorder.stream = FALSE,
                       !.mediaRecorders = [i \in DOMAIN @ |-> [@[i] EXCEPT !.current = FALSE]],
                       !.tasks = @ (+) SetToBag({RecorderTask("ended", FALSE, i) : i \in hit})]

cancelRecording(m) ==
    StopTracks(IF MediaRecorderState(m) = "recording" THEN StopMediaRecorder(m) ELSE m)

Taken(m, task) == [m EXCEPT !.tasks = @ (-) SetToBag({task})]

\* The continuations of `await this.setupAudioAnalysis(this.stream)` still to
\* run: they are microtasks, and no task of the platform (a frame, a timer,
\* an event, the clock) runs before they have.
Resuming(m) ==
    CopiesIn(RecorderTask("begin", FALSE, 0), m.tasks)
        + CopiesIn(RecorderTask("begin", TRUE, 0), m.tasks)

\* Whether the recorders that the calls under way may create are within the
\* model.
RoomToRecord == Len(mediaRecorders) + Resuming(Machine) < MaxRecorders

StartRecording ==
    /\ rcalls < MaxRecCalls
    /\ RoomToRecord
    /\ rcalls' = rcalls + 1
    /\ Becomes(startRecording(Machine, FALSE))
    /\ UNCHANGED <<now, level>>

StopRecording ==
    /\ rcalls < MaxRecCalls
    /\ rcalls' = rcalls + 1
    /\ Becomes([stopRecording(Machine) EXCEPT !.marks.interfered = TRUE])
    /\ UNCHANGED <<now, level>>

CancelRecording ==
    /\ rcalls < MaxRecCalls
    /\ rcalls' = rcalls + 1
    /\ Becomes([cancelRecording(Machine) EXCEPT !.marks.interfered = TRUE])
    /\ UNCHANGED <<now, level>>

\* setupAudioAnalysis has returned: startRecording awaits its promise, and
\* goes on from `new MediaRecorder` in a later microtask.
AnalysisReady(m, restart) ==
    [m EXCEPT !.tasks = @ (+) SetToBag({RecorderTask("begin", restart, 0)})]

\* getUserMedia settles; on success this.stream is the new stream and
\* setupAudioAnalysis runs up to its await or its end.  `context` is what
\* `new AudioContext()` does: it throws (the catch of setupAudioAnalysis
\* logs, and the context and the analyser stay as they were), or gives a
\* context that is "suspended", and is resumed before the silence detection
\* starts, or "running".
GetUserMediaDone(restart, ok, context) ==
    LET task == RecorderTask("getUserMedia", restart, 0)
        m == Taken(Machine, task)
        \* this.stream is a new stream: no recorder records it yet
        m1 == [m EXCEPT !.recorder.stream = TRUE,
                        !.mediaRecorders = [i \in DOMAIN @ |-> [@[i] EXCEPT !.current = FALSE]]]
        m2 == [m1 EXCEPT !.recorder.audioContext = TRUE, !.recorder.closing = FALSE]
    IN  /\ BagIn(task, tasks)
        /\ RoomToRecord
        /\ IF ~ok
           THEN /\ context = "running"
                /\ Becomes([(IF restart THEN [m EXCEPT !.recorder.isListening = FALSE] ELSE m)
                               EXCEPT !.marks.interfered = TRUE])
           ELSE IF context = "throws"
           THEN Becomes(AnalysisReady(m1, restart))
           ELSE IF context = "suspended"
           THEN Becomes([m2 EXCEPT !.tasks = @ (+) SetToBag({RecorderTask("resume", restart, 0)})])
           ELSE /\ WithinModel([m2 EXCEPT !.recorder.isListening = TRUE], level)
                /\ Becomes(AnalysisReady(startSilenceDetection(m2, now, level), restart))
        /\ UNCHANGED <<now, level, rcalls>>

\* audioContext.resume() settles: the silence detection starts, or, when
\* the promise rejects, the catch of setupAudioAnalysis logs; either way
\* setupAudioAnalysis returns.
ContextResumed(restart, ok) ==
    LET task == RecorderTask("resume", restart, 0)
        m == Taken(Machine, task)
    IN  /\ BagIn(task, tasks)
        /\ RoomToRecord
        /\ IF ok
           THEN /\ WithinModel([m EXCEPT !.recorder.isListening = TRUE], level)
                /\ Becomes(AnalysisReady(startSilenceDetection(m, now, level), restart))
           ELSE Becomes(AnalysisReady(m, restart))
        /\ UNCHANGED <<now, level, rcalls>>

\* The await of setupAudioAnalysis resumes: the rest of startRecording.
AnalysisAwaited(restart) ==
    LET task == RecorderTask("begin", restart, 0)
    IN  /\ BagIn(task, tasks)
        /\ Becomes(BeginRecording(Taken(Machine, task), restart))
        /\ UNCHANGED <<now, level, rcalls>>

\* A frame of the loop: requestAnimationFrame runs checkSilence.
CheckSilenceFrame ==
    LET m == [Machine EXCEPT !.frames = @ - 1]
    IN  /\ frames > 0
        /\ Resuming(Machine) = 0
        /\ WithinModel(m, level)
        /\ Becomes(checkSilence(m, now, level))
        /\ UNCHANGED <<now, level, rcalls>>

\* The silence timer expires: its callback stops the recording.
SilenceTimerFires(i) ==
    LET m == [Machine EXCEPT !.timers[i].state = "fired"]
    IN  /\ i \in DOMAIN timers
        /\ Resuming(Machine) = 0
        /\ timers[i].state = "armed"
        /\ now >= timers[i].due
        /\ Becomes(IF Listens(m)
                   THEN stopRecording([m EXCEPT !.marks.autoStops = @ + 1])
                   ELSE m)
        /\ UNCHANGED <<now, level, rcalls>>

\* The stop event of a recorder runs the onstop handler it has by then, up
\* to its first await.  The await of audioContext.close() is a task whose id
\* is 1 when close() had already been called on that context, and 0
\* otherwise.
StopEvent(id) ==
    LET task == RecorderTask("stop", FALSE, id)
        m == Taken(Machine, task)
        restart == mediaRecorders[id].onstop = "restart"
        again == IF recorder.closing THEN 1 ELSE 0
    IN  /\ BagIn(task, tasks)
        /\ Resuming(Machine) = 0
        /\ Becomes(IF mediaRecorders[id].onstop = "none" THEN m
                   ELSE IF ~recorder.isListening /\ recorder.audioContext
                   THEN [m EXCEPT !.recorder.closing = TRUE,
                                  !.tasks = @ (+) SetToBag({RecorderTask("close", restart, again)})]
                   ELSE [(IF recorder.isListening THEN m ELSE StopTracks(m))
                            EXCEPT !.tasks = @ (+) SetToBag({RecorderTask("convert", restart, 0)})])
        /\ UNCHANGED <<now, level, rcalls>>

\* The tracks of the stream that recorder id records have ended: the
\* platform inactivates the recorder if it still records.  Its stop event
\* finds no onstop handler: stopRecording sets one only together with stop().
TracksEnded(id) ==
    LET task == RecorderTask("ended", FALSE, id)
        m == Taken(Machine, task)
    IN  /\ BagIn(task, tasks)
        /\ Resuming(Machine) = 0
        /\ Becomes(IF mediaRecorders[id].state = "recording"
                   THEN [m EXCEPT !.mediaRecorders[id].state = "inactive"]
                   ELSE m)
        /\ UNCHANGED <<now, level, rcalls>>

\* audioContext.close() settles.  When it resolves, the analysis and the
\* stream are dropped and convertSpeechToText is awaited.  A close() on a
\* context that close() was already called on rejects with an
\* InvalidStateError, unless the platform tolerates it: the catch of the
\* handler rejects the promise of stopRecording and nothing else, so the
\* context and the stream stay, nothing is converted and nothing restarts.
ContextClosed(restart, again, ok) ==
    LET task == RecorderTask("close", restart, again)
        m == Taken(Machine, task)
    IN  /\ BagIn(task, tasks)
        /\ ~ok => again = 1
        /\ Becomes(IF ok
                   THEN [StopTracks([m EXCEPT !.recorder.audioContext = FALSE,
                                              !.recorder.closing = FALSE])
                            EXCEPT !.tasks = @ (+) SetToBag({RecorderTask("convert", restart, 0)})]
                   ELSE m)
        /\ UNCHANGED <<now, level, rcalls>>

\* convertSpeechToText settles: onSpeechEnd, then the restart if the
\* recorder was listening.  A failed transcription rejects and ends there.
SpeechConverted(restart, ok) ==
    LET task == RecorderTask("convert", restart, 0)
        m == Taken(Machine, task)
    IN  /\ BagIn(task, tasks)
        /\ RoomToRecord
        /\ Becomes(IF ok /\ restart
                   THEN startRecording([m EXCEPT !.recorder.isListening = TRUE], TRUE)
                   ELSE m)
        /\ UNCHANGED <<now, level, rcalls>>

\* A level that is speech, or silence, whatever the baseline.
SurelySpeech(l) == l * 1000 > 18 * Larger(600, 15 * 255)
SurelySilent(l) == l < 6

SomeTimerArmed == \E i \in DOMAIN timers : timers[i].state = "armed" /\ timers[i].due > now

\* Whether a sample taken now would be above the speech threshold.
SpeechNow ==
    HasSpeech(level, InitialLevel(level, recorder.lastAudioLevel))

\* Time passes by one tick, at the end of which the level changes to l.
\* marks.loudMs is for how long the level has surely been speech during
\* this recording, marks.dip whether it has surely been silent since;
\* marks.speechMs is for how long in all the level has been above the speech
\* threshold during this recording, up to minSpeechLength.
Tick(l) ==
    LET rec == MediaRecorderState(Machine) = "recording"
        loud == rec /\ SurelySpeech(level)
        quiet == rec /\ SurelySilent(level) /\ marks.loudMs >= minSpeechLength
    IN  /\ now < MaxTime \/ SomeTimerArmed
        /\ Resuming(Machine) = 0
        /\ now' = now + TickMs
        /\ level' = l
        /\ marks' = [marks EXCEPT
                        !.loudMs = IF loud
                                   THEN IF marks.dip THEN TickMs
                                        ELSE IF @ >= minSpeechLength THEN @ ELSE @ + TickMs
                                   ELSE IF quiet THEN @ ELSE 0,
                        !.dip = quiet,
                        !.speechMs = IF rec /\ SpeechNow /\ @ < minSpeechLength
                                     THEN @ + TickMs ELSE @]
        /\ UNCHANGED <<recorder, mediaRecorders, timers, frames, tasks, rcalls>>

\* The recorder after construction.
RecorderIdle ==
    /\ recorder = [mediaRecorder |-> 0, stream |-> FALSE, audioContext |-> FALSE,
                   closing |-> FALSE, isListening |-> FALSE, hasDetectedSpeech |-> FALSE,
                   speechStartTime |-> 0, silenceTimer |-> 0, lastAudioLevel |-> 0]
    /\ mediaRecorders = <<>>
    /\ timers = <<>>
    /\ frames = 0
    /\ tasks = EmptyBag
    /\ marks = [sampled |-> FALSE, autoStops |-> 0, loudMs |-> 0, dip |-> FALSE,
                speechMs |-> 0, interfered |-> FALSE]
    /\ rcalls = 0
    /\ now = TickMs
    /\ level = 0

\* The services with nothing under way.
ServerIdle ==
    /\ activeStreams = {}
    /\ streams = [s \in StreamIds |-> IdleStream]
    /\ events = [sk \in Sockets |-> <<>>]
    /\ closed = NoCall
    /\ chats = [m \in ChatIds |-> IdleChat]

\* The server with its clients connected and nothing under way.
ServerInit == ServerIdle /\ activeConnections = Sockets

ChunkerIdle == cText = <<>> /\ cLimit = 1 /\ cChunks = <<>> /\ cDone = FALSE

\* What no step of the server touches.
OutsideServer ==
    UNCHANGED audit /\ UNCHANGED chunkerVars /\ UNCHANGED queueVars /\ UNCHANGED recorderVars

\* The frame of a step of streamResponse or handleChatMessage: neither
\* touches the connections.
ServerFrame == OutsideServer /\ UNCHANGED activeConnections

\* The server: streamResponse invocations running concurrently.
Init == ServerInit /\ audit = FALSE /\ ChunkerIdle /\ QueueIdle /\ RecorderIdle

Next ==
    \/ \E s \in StreamIds, sk \in Sockets, t \in StreamTexts :
           StreamResponse(s, sk, t) /\ UNCHANGED chats /\ ServerFrame
    \/ \E s \in StreamIds, r \in Responses : Respond(s, r) /\ UNCHANGED chats /\ ServerFrame
    \/ \E s \in StreamIds : RetryRequest(s) /\ UNCHANGED chats /\ ServerFrame
    \/ \E s \in StreamIds : NextSubChunk(s) /\ UNCHANGED chats /\ ServerFrame
    \/ \E s \in StreamIds : NextChunkIteration(s) /\ UNCHANGED chats /\ ServerFrame
    \/ \E s \in StreamIds : ConvertToSpeechReturned(s) /\ UNCHANGED chats /\ ServerFrame

Spec == Init /\ [][Next]_vars

\* One streamResponse invocation, the requests of its makeRequest calls
\* recorded.
InitSolo == ServerInit /\ audit = TRUE /\ ChunkerIdle /\ QueueIdle /\ RecorderIdle

NextSolo ==
    \/ \E sk \in Sockets, t \in StreamTexts : StreamResponse(1, sk, t) /\ UNCHANGED chats /\ ServerFrame
    \/ \E r \in Responses : Respond(1, r) /\ UNCHANGED chats /\ ServerFrame
    \/ RetryRequest(1) /\ UNCHANGED chats /\ ServerFrame
    \/ NextSubChunk(1) /\ UNCHANGED chats /\ ServerFrame
    \/ NextChunkIteration(1) /\ UNCHANGED chats /\ ServerFrame
    \/ ConvertToSpeechReturned(1) /\ UNCHANGED chats /\ ServerFrame

SpecSolo == InitSolo /\ [][NextSolo]_vars

(***************************************************************************)
(* The server under one chat message: handleChatMessage, which calls       *)
(* streamResponse with the generated content.                              *)
(***************************************************************************)
NextChat ==
    \/ \E sk \in Sockets, n \in 0..MaxTokens : HandleChatMessage(1, sk, n) /\ ServerFrame
    \/ \E ok \in BOOLEAN : UserMessageSaved(1, ok) /\ ServerFrame
    \/ TokenArrives(1) /\ ServerFrame
    \/ \E thrown \in GenerationErrors : GenerationFails(1, thrown) /\ ServerFrame
    \/ \E t \in ChatTexts : ResponseGenerated(1, 1, t) /\ ServerFrame
    \/ StreamReturned(1) /\ ServerFrame
    \/ \E ok \in BOOLEAN : FinalMessageSaved(1, ok) /\ ServerFrame
    \/ \E r \in Responses : Respond(1, r) /\ UNCHANGED chats /\ ServerFrame
    \/ RetryRequest(1) /\ UNCHANGED chats /\ ServerFrame
    \/ NextSubChunk(1) /\ UNCHANGED chats /\ ServerFrame
    \/ NextChunkIteration(1) /\ UNCHANGED chats /\ ServerFrame
    \/ ConvertToSpeechReturned(1) /\ UNCHANGED chats /\ ServerFrame

SpecChat == Init /\ [][NextChat]_vars

(***************************************************************************)
(* The WebSocket service from its construction: clients connect and        *)
(* disconnect, a connected client sends the events that are broadcast, and *)
(* one chat message of a connected client is handled.  The message's       *)
(* handler runs on whether or not its socket is still connected.  The      *)
(* service's public methods are called at any time.                        *)
(***************************************************************************)
InitConn ==
    /\ ServerIdle
    /\ activeConnections = {}
    /\ audit = FALSE
    /\ ChunkerIdle
    /\ QueueIdle
    /\ RecorderIdle

NextConn ==
    \/ \E sk \in Sockets : Connect(sk) /\ OutsideServer
    \/ \E sk \in Sockets : Disconnect(sk) /\ OutsideServer
    \/ \E sk \in Sockets, ev \in BroadcastEvents : Broadcast(sk, ev) /\ OutsideServer
    \/ \E sk \in Sockets : ChatAudioWithoutPayload(sk) /\ OutsideServer
    \/ \E ev \in MessagesToAll : BroadcastMessage(ev) /\ OutsideServer
    \/ DisconnectAll /\ OutsideServer
    \/ \E sk \in activeConnections, n \in 0..MaxTokens :
           HandleChatMessage(1, sk, n) /\ ServerFrame
    \/ \E ok \in BOOLEAN : UserMessageSaved(1, ok) /\ ServerFrame
    \/ TokenArrives(1) /\ ServerFrame
    \/ \E thrown \in GenerationErrors : GenerationFails(1, thrown) /\ ServerFrame
    \/ \E t \in ChatTexts : ResponseGenerated(1, 1, t) /\ ServerFrame
    \/ StreamReturned(1) /\ ServerFrame
    \/ \E ok \in BOOLEAN : FinalMessageSaved(1, ok) /\ ServerFrame
    \/ \E r \in Responses : Respond(1, r) /\ UNCHANGED chats /\ ServerFrame
    \/ RetryRequest(1) /\ UNCHANGED chats /\ ServerFrame
    \/ NextSubChunk(1) /\ UNCHANGED chats /\ ServerFrame
    \/ NextChunkIteration(1) /\ UNCHANGED chats /\ ServerFrame
    \/ ConvertToSpeechReturned(1) /\ UNCHANGED chats /\ ServerFrame

SpecConn == InitConn /\ [][NextConn]_vars

(***************************************************************************)
(* Chunker runs: one call of splitTextIntoChunks on a drawn text and size. *)
(***************************************************************************)
InitChunk ==
    /\ cText \in TextsUpTo(MaxTextLen)
    /\ cLimit \in 1..MaxLimit
    /\ cChunks = <<>>
    /\ cDone = FALSE
    /\ activeStreams = {}
    /\ streams = [s \in StreamIds |-> IdleStream]
    /\ events = [sk \in Sockets |-> <<>>]
    /\ closed = NoCall
    /\ chats = [m \in ChatIds |-> IdleChat]
    /\ activeConnections = Sockets
    /\ audit = FALSE
    /\ QueueIdle
    /\ RecorderIdle

RunChunker ==
    /\ ~cDone
    /\ cChunks' = splitTextIntoChunks(cText, cLimit)
    /\ cDone' = TRUE
    /\ UNCHANGED <<cText, cLimit>>
    /\ UNCHANGED serverVars
    /\ UNCHANGED queueVars
    /\ UNCHANGED recorderVars

NextChunk == RunChunker

SpecChunk == InitChunk /\ [][NextChunk]_vars

(***************************************************************************)
(* Runs of the synthesis client's splitTextIntoChunks, as convertToSpeech  *)
(* calls it: every short text over a small alphabet, and texts of one or   *)
(* two sentences or comma-separated parts whose lengths lie around         *)
(* maxChunkLength and its half.                                            *)
(***************************************************************************)
MaxTtsTextLen == 4

TtsChars == {"a", SP, ".", ",", "*"}
ShortTtsTexts == UNION {[1..k -> TtsChars] : k \in 0..MaxTtsTextLen}

\* n times the letter a.
Run(n) == [k \in 1..n |-> "a"]
RunLengths == {1, maxChunkLength \div 2 - 1, maxChunkLength \div 2,
               maxChunkLength - 1, maxChunkLength}
LongTtsTexts ==
    {Run(n) \o <<".">> : n \in RunLengths}
    \cup {Run(n) \o sep \o Run(m) \o <<".">> :
              n \in RunLengths, m \in RunLengths, sep \in {<<",">>, <<".", SP>>, <<SP>>}}

TtsTexts == ShortTtsTexts \cup LongTtsTexts

InitTtsChunk ==
    /\ cText \in TtsTexts
    /\ cLimit = maxChunkLength
    /\ cChunks = <<>>
    /\ cDone = FALSE
    /\ ServerInit
    /\ audit = FALSE
    /\ QueueIdle
    /\ RecorderIdle

\* convertToSpeech: const chunks = this.splitTextIntoChunks(text)
RunTtsChunker ==
    /\ ~cDone
    /\ cChunks' = ttsSplitTextIntoChunks(cText)
    /\ cDone' = TRUE
    /\ UNCHANGED <<cText, cLimit>>
    /\ UNCHANGED serverVars
    /\ UNCHANGED queueVars
    /\ UNCHANGED recorderVars

NextTtsChunk == RunTtsChunker

SpecTtsChunk == InitTtsChunk /\ [][NextTtsChunk]_vars

(***************************************************************************)
(* The audio queue manager under its public calls, the completions of its  *)
(* awaits and the events of its sources, in any order.  Where the          *)
(* constructor's new AudioContext() threw, audioContext stays null and     *)
(* initAudioContext has handed PLAYBACK_ERROR, an error of no chunk, to    *)
(* handleError.                                                            *)
(***************************************************************************)
InitQueue ==
    /\ audioContext \in {"running", "null"}
    /\ contextTasks = <<>>
    /\ config \in QueueSizes
    /\ queue = <<>>
    /\ isPlaying = FALSE
    /\ currentSource = NoSource
    /\ sources = <<>>
    /\ pending = EmptyBag
    /\ reported = IF audioContext = "null"
                  THEN <<QueueError("PLAYBACK_ERROR", "",
                                    "Failed to initialize audio system")>>
                  ELSE <<>>
    /\ calls = 0
    /\ asked = <<>>
    /\ ServerInit
    /\ audit = FALSE
    /\ ChunkerIdle
    /\ RecorderIdle

QueueFrame == UNCHANGED serverVars /\ UNCHANGED chunkerVars /\ UNCHANGED recorderVars

NextQueue ==
    \/ \E c \in ChunkIdSet, kind \in AudioKinds : EnqueueChunk(c, kind) /\ QueueFrame
    \/ \E c \in ChunkIdSet, ok \in BOOLEAN : BlobConverted(c, ok) /\ QueueFrame
    \/ \E c \in ChunkIdSet, ok \in BOOLEAN : AudioDecoded(c, ok) /\ QueueFrame
    \/ \E i \in 1..MaxSources : PlaybackFinishes(i) /\ QueueFrame
    \/ \E i \in 1..MaxSources : OnEnded(i) /\ QueueFrame
    \/ Stop /\ QueueFrame
    \/ Clear /\ QueueFrame
    \/ Pause /\ QueueFrame
    \/ Resume /\ QueueFrame
    \/ ContextStateSet /\ QueueFrame

SpecQueue == InitQueue /\ [][NextQueue]_vars

\* The manager on a platform that takes the steps that are its own: it
\* settles every promise, plays every started buffer to its end while the
\* context runs, delivers every ended event and sets the context's state.
SpecQueueFair ==
    /\ SpecQueue
    /\ WF_vars(\E c \in ChunkIdSet, ok \in BOOLEAN : BlobConverted(c, ok) /\ QueueFrame)
    /\ WF_vars(\E c \in ChunkIdSet, ok \in BOOLEAN : AudioDecoded(c, ok) /\ QueueFrame)
    /\ WF_vars(\E i \in 1..MaxSources : PlaybackFinishes(i) /\ QueueFrame)
    /\ WF_vars(\E i \in 1..MaxSources : OnEnded(i) /\ QueueFrame)
    /\ WF_vars(ContextStateSet /\ QueueFrame)

(***************************************************************************)
(* The audio recorder under its public calls, the completions of its       *)
(* awaits, the frames of its silence detection loop, its silence timer,    *)
(* and the passing of time.                                                *)
(***************************************************************************)
InitRecorder ==
    /\ RecorderIdle
    /\ level \in Levels
    /\ ServerInit
    /\ audit = FALSE
    /\ ChunkerIdle
    /\ QueueIdle

RecorderFrame == UNCHANGED serverVars /\ UNCHANGED chunkerVars /\ UNCHANGED queueVars

RecorderCalls ==
    \/ StartRecording /\ RecorderFrame
    \/ StopRecording /\ RecorderFrame
    \/ CancelRecording /\ RecorderFrame

RecorderAwaits ==
    \/ \E restart, ok \in BOOLEAN, context \in {"running", "suspended", "throws"} :
           GetUserMediaDone(restart, ok, context) /\ RecorderFrame
    \/ \E restart, ok \in BOOLEAN : ContextResumed(restart, ok) /\ RecorderFrame
    \/ \E restart \in BOOLEAN : AnalysisAwaited(restart) /\ RecorderFrame
    \/ \E id \in 1..MaxRecorders : StopEvent(id) /\ RecorderFrame
    \/ \E id \in 1..MaxRecorders : TracksEnded(id) /\ RecorderFrame
    \/ \E restart, ok \in BOOLEAN, again \in {0, 1} :
           ContextClosed(restart, again, ok) /\ RecorderFrame
    \/ \E restart, ok \in BOOLEAN : SpeechConverted(restart, ok) /\ RecorderFrame

RecorderFrames == CheckSilenceFrame /\ RecorderFrame

RecorderTimers == \E i \in 1..MaxTimers : SilenceTimerFires(i) /\ RecorderFrame

RecorderClock == \E l \in Levels : Tick(l) /\ RecorderFrame

NextRecorder ==
    \/ RecorderCalls
    \/ RecorderAwaits
    \/ RecorderFrames
    \/ RecorderTimers
    \/ RecorderClock

SpecRecorder == InitRecorder /\ [][NextRecorder]_vars

\* The same, with what the browser guarantees: an await settles, a
\* requested frame runs, an expired timer fires, and time passes.
SpecRecorderFair ==
    /\ SpecRecorder
    /\ WF_vars(RecorderAwaits)
    /\ WF_vars(RecorderFrames)
    /\ WF_vars(RecorderTimers)
    /\ WF_vars(RecorderClock)


(***************************************************************************)
(* Claims about the stream coordinator and the synthesis client.           *)
(***************************************************************************)
Started(s) == streams[s].pc # "idle"
Finished(s) == streams[s].pc = "done"

\* The events of stream s, in emission order.
EventsOfStream(s) ==
    IF Started(s)
    THEN SelectSeq(events[streams[s].socket], LAMBDA e : e.stream = s)
    ELSE <<>>
ChunkEventsOf(s) == SelectSeq(EventsOfStream(s), LAMBDA e : e.type = "stream:chunk")
ChunkErrorIndices(s) ==
    {EventsOfStream(s)[k].index : k \in {m \in DOMAIN EventsOfStream(s) :
                                            EventsOfStream(s)[m].code = "CHUNK_ERROR"}}

\* C1: once a later stream's stream:start is on a socket, no stream:chunk of
\* an earlier stream follows it on that socket.  (Streams are numbered in
\* the order of their invocation.)
C1_NoChunkOfSupersededStream ==
    \A sk \in Sockets : \A p, q \in DOMAIN events[sk] :
        (p < q /\ events[sk][p].type = "stream:start"
               /\ events[sk][q].type = "stream:chunk")
            => events[sk][q].stream >= events[sk][p].stream

\* C3: a finished stream that ran alone on its socket and whose chunking did
\* not throw emitted stream:start, then one event per chunk in index order
\* (stream:chunk or stream:error CHUNK_ERROR), then stream:end.
C3_SoloStreamEvents ==
    \A s \in StreamIds :
        (Finished(s) /\ streams[s].alone /\ streams[s].text # NoText) =>
            LET ev == EventsOfStream(s)
                n == ChunkCount(streams[s].text)
            IN  /\ Len(ev) = n + 2
                /\ ev[1] = StartEvent(s)
                /\ ev[n + 2] = EndEvent(s)
                /\ \A k \in 1..n :
                       \/ ev[k + 1] = ChunkEvent(s, k - 1, k = n)
                       \/ ev[k + 1] = ChunkErrorEvent(s, k - 1)

\* C3 witness: the three-chunk scenario, chunk 1 failing, run alone.
C3_Witness ==
    \E s \in StreamIds :
        /\ Finished(s) /\ streams[s].alone
        /\ EventsOfStream(s) = <<StartEvent(s), ChunkEvent(s, 0, FALSE),
                                 ChunkErrorEvent(s, 1), ChunkEvent(s, 2, TRUE),
                                 EndEvent(s)>>

\* The positions, among the stream:chunk events of s, of those with isLast.
LastFlagged(s) == {k \in DOMAIN ChunkEventsOf(s) : ChunkEventsOf(s)[k].isLast}

\* C4 as stated: a stream that reached stream:end emitted exactly one
\* stream:chunk with isLast, the one with the highest index.
C4_ExactlyOneLastChunk ==
    \A s \in StreamIds :
        streams[s].exit = "end" =>
            /\ Cardinality(LastFlagged(s)) = 1
            /\ \A k \in LastFlagged(s) : \A m \in DOMAIN ChunkEventsOf(s) :
                   ChunkEventsOf(s)[m].index <= ChunkEventsOf(s)[k].index

\* C5 as stated: the indices of the emitted stream:chunk events of a stream
\* are strictly increasing and the first one is 0.
C5_IndicesIncreasingFromZero ==
    \A s \in StreamIds :
        LET ch == ChunkEventsOf(s)
        IN  /\ \A k, m \in DOMAIN ch : k < m => ch[k].index < ch[m].index
            /\ Len(ch) > 0 => ch[1].index = 0

\* C5 amended: the indices of the emitted stream:chunk events of a stream are
\* strictly increasing, and every index below that of the first emitted
\* chunk belongs to a chunk reported with CHUNK_ERROR: the first emitted
\* chunk has index 0 unless synthesis of chunk 0 failed.
C5_IndicesIncreasingAfterFailures ==
    \A s \in StreamIds :
        LET ch == ChunkEventsOf(s)
        IN  /\ \A k, m \in DOMAIN ch : k < m => ch[k].index < ch[m].index
            /\ Len(ch) > 0 =>
                   /\ \A x \in 0..(ch[1].index - 1) : x \in ChunkErrorIndices(s)
                   /\ (0 \notin ChunkErrorIndices(s) => ch[1].index = 0)

\* C5 witness: chunk 0 failed and two later chunks were emitted.
C5_Witness ==
    \E s \in StreamIds :
        /\ 0 \in ChunkErrorIndices(s)
        /\ Len(ChunkEventsOf(s)) = 2
        /\ ChunkEventsOf(s)[1].index = 1

\* C6: a chunk failure does not end the stream: a stream that reported a
\* CHUNK_ERROR never emits its own STREAM_ERROR, has gone on to the next
\* iteration of its chunk loop unless it was cancelled, is cancelled only if
\* another stream shared its socket, and when it finishes uncancelled it has
\* emitted stream:end after an event for every chunk.
C6_ChunkFailureDoesNotEscalate ==
    \A s \in StreamIds : \A x \in ChunkErrorIndices(s) :
        /\ streams[s].exit # "error"
        /\ \A k \in DOMAIN EventsOfStream(s) : EventsOfStream(s)[k] # StreamErrorEvent(s)
        /\ streams[s].exit = "cancelled" \/ streams[s].i > x
        /\ streams[s].alone => streams[s].exit # "cancelled"
        /\ (Finished(s) /\ streams[s].exit # "cancelled") =>
               /\ EventsOfStream(s)[Len(EventsOfStream(s))] = EndEvent(s)
               /\ \A y \in 0..(ChunkCount(streams[s].text) - 1) :
                      \E k \in DOMAIN EventsOfStream(s) :
                          EventsOfStream(s)[k].index = y

\* C6 witness: chunk 0 failed, chunks 1 and 2 were attempted and the stream
\* ended with stream:end.
C6_Witness ==
    \E s \in StreamIds :
        /\ 0 \in ChunkErrorIndices(s)
        /\ streams[s].exit = "end"
        /\ Len(EventsOfStream(s)) = 5

\* C7: a makeRequest call all of whose requests were answered 503 throws
\* after exactly maxRetries + 1 requests, and the coordinator reports the
\* chunk with one CHUNK_ERROR event.
C7_AllUnavailableFailsAfterFourRequests ==
    (closed # NoCall /\ closed.only503) =>
        /\ ~closed.ok
        /\ closed.reqs = maxRetries + 1
        /\ closed.reqs = 4
        /\ Len(SelectSeq(EventsOfStream(closed.stream),
                         LAMBDA e : e = ChunkErrorEvent(closed.stream, closed.i))) = 1

\* C7 witness: a call answered 503 four times has just thrown.
C7_Witness == closed # NoCall /\ closed.only503 /\ closed.reqs = 4 /\ closed.i = 1

\* C8: a makeRequest call that received a 401 or a 400 throws on it: no call
\* that received one is requesting or waiting to retry, and the call that a
\* 401 or 400 ended has failed and is reported with CHUNK_ERROR.
C8_AuthAndBadRequestNotRetried ==
    /\ \A s \in StreamIds :
           streams[s].pc \in {"request", "backoff"} => ~streams[s].fatalSeen
    /\ (closed # NoCall /\ closed.fatal) =>
           /\ ~closed.ok
           /\ closed.i \in ChunkErrorIndices(closed.stream)

\* C8 witness: a 401 or 400 ended a call on its third request, after two
\* retries.
C8_Witness == closed # NoCall /\ closed.fatal /\ closed.reqs = 3

(***************************************************************************)
(* Claims about the audio queue manager.                                   *)
(***************************************************************************)
PlayingSources == {i \in DOMAIN sources : sources[i].state = "playing"}

\* C2: at most one buffer source is playing at any instant, whatever the
\* order of enqueueChunk calls, decode completions, ended events, stop() and
\* clear().
C2_AtMostOneSourcePlaying == Cardinality(PlayingSources) <= 1

(***************************************************************************)
(* Claims about the chunker.                                               *)
(***************************************************************************)
\* C9: every chunk returned by splitTextIntoChunks has length at most L,
\* wherever a word longer than L occurs in the text.
C9_EveryChunkWithinLimit ==
    cDone => \A k \in 1..Len(cChunks) : Len(cChunks[k]) <= cLimit

\* C10: joining the chunks returned by splitTextIntoChunks with single
\* spaces, in index order, gives the whitespace-normalized form of the input
\* text.
C10_JoinIsNormalizedText ==
    cDone => JoinWithSpace(cChunks) = NormalizeWhitespace(cText)

\* C11: splitTextIntoChunks applied to the empty string returns an empty
\* chunk list.
C11_EmptyTextGivesNoChunks ==
    (cDone /\ cText = <<>>) => cChunks = <<>>

(***************************************************************************)
(* Further claims about the audio queue manager.                           *)
(***************************************************************************)
\* The positions of `asked` at which enqueueChunk was called for chunk c.
AskedAt(c) == {k \in DOMAIN asked : asked[k] = c}

\* No stop() or clear() has been called.
NeverStopped == \A k \in DOMAIN asked : asked[k] \notin {"stop", "clear"}

\* C12: chunks start playback in the order of their enqueueChunk calls: while
\* neither stop() nor clear() is called, of two started sources whose chunks
\* were each enqueued by one call, the one started first belongs to the chunk
\* enqueued first.
C12_PlaybackStartsInCallOrder ==
    \A i, j \in DOMAIN sources :
        (/\ NeverStopped
         /\ i < j
         /\ Cardinality(AskedAt(sources[i].chunk)) = 1
         /\ Cardinality(AskedAt(sources[j].chunk)) = 1)
            => \A a \in AskedAt(sources[i].chunk), b \in AskedAt(sources[j].chunk) : a <= b

\* C13: the queue never holds two entries with the same chunk id, whether
\* the enqueueChunk calls for that id follow each other or overlap.
C13_NoDuplicateIdInQueue ==
    \A k, m \in DOMAIN queue : queue[k] = queue[m] => k = m

\* C15: the queue never holds more than config.maxQueueSize chunks.
C15_QueueWithinMaxQueueSize == Len(queue) <= config

\* The error reported last, if any.
LastReported == reported[Len(reported)]

\* C14: an enqueueChunk call made while the queue holds maxQueueSize chunks
\* (or more) reports QUEUE_FULL for the queue being full and changes neither
\* the queue nor the playback: the flag, the current source, the sources and
\* the decodes under way.
C14_FullQueueRejects ==
    [][(/\ Len(asked') = Len(asked) + 1
        /\ asked'[Len(asked')] \in ChunkIdSet
        /\ Len(queue) >= config)
           => /\ reported' = Append(reported,
                                    QueueError("QUEUE_FULL", asked'[Len(asked')],
                                               "Audio queue is full"))
              /\ UNCHANGED <<queue, isPlaying, currentSource, sources, pending>>]_vars

\* C14 witness: a call on a full queue has just been rejected while a chunk
\* plays.
C14_Witness ==
    /\ Len(queue) = config
    /\ Len(reported) = 1
    /\ LastReported.details = "Audio queue is full"
    /\ asked[Len(asked)] = LastReported.chunk
    /\ currentSource # NoSource
    /\ sources[currentSource].state = "playing"

\* The positions of `asked` that are clear() calls, up to position n.
ClearsUpTo(n) == {k \in 1..n : asked[k] = "clear"}
LastClearUpTo(n) == CHOOSE k \in ClearsUpTo(n) : \A m \in ClearsUpTo(n) : m <= k

\* C16: clear() discards everything enqueued before it: a source started
\* after a clear() plays a chunk enqueued after that clear() (none starts
\* playback from before it), and no source started before the latest clear()
\* is still playing (none continues playback).
C16_ClearDiscardsEarlierChunks ==
    /\ \A i \in DOMAIN sources :
           ClearsUpTo(sources[i].at) # {} =>
               \E m \in (LastClearUpTo(sources[i].at) + 1)..sources[i].at :
                   asked[m] = sources[i].chunk
    /\ \A i \in DOMAIN sources :
           (ClearsUpTo(Len(asked)) # {} /\ sources[i].state = "playing")
               => sources[i].at >= LastClearUpTo(Len(asked))

\* A step that is the failure of a decode: no call is made, no source is
\* started or ended, no conversion settles, and something changes while a
\* decode is under way.
DecodeFailureStep ==
    /\ \E c \in ChunkIdSet : BagIn(DecodeTask(c), pending)
    /\ UNCHANGED <<calls, asked, sources, audioContext>>
    /\ \A c \in ChunkIdSet :
           CopiesIn(BlobTask(c), pending') = CopiesIn(BlobTask(c), pending)
    /\ <<queue, pending, reported, isPlaying>>' # <<queue, pending, reported, isPlaying>>

\* C17: when the decode of the head chunk fails, one PLAYBACK_ERROR is
\* reported, the chunk (enqueued by one call) leaves the queue and has never
\* been played, and the decode of the next queued chunk starts with isPlaying
\* true if there is one; otherwise isPlaying becomes false.
C17_DecodeFailureDropsHeadChunk ==
    [][DecodeFailureStep =>
          /\ Len(reported') = Len(reported) + 1
          /\ reported'[Len(reported')].code = "PLAYBACK_ERROR"
          /\ BagIn(DecodeTask(reported'[Len(reported')].chunk), pending)
          /\ LET c == reported'[Len(reported')].chunk
             IN  (Len(queue) > 0 /\ queue[1] = c /\ Cardinality(AskedAt(c)) = 1) =>
                     /\ queue' = Tail(queue)
                     /\ \A i \in DOMAIN sources' : sources'[i].chunk # c
                     /\ IF Len(queue') > 0
                        THEN isPlaying' /\ BagIn(DecodeTask(queue'[1]), pending')
                        ELSE ~isPlaying']_vars

\* A pause() or resume() call: a call that is not logged in `asked`.
PauseOrResumeStep == calls' = calls + 1 /\ asked' = asked

\* C18: pause() and resume() leave the queue, the isPlaying flag and the
\* current source as they were.
C18_PauseResumeKeepQueue ==
    [][PauseOrResumeStep => UNCHANGED <<queue, isPlaying, currentSource>>]_vars

\* C18 witness: a pause() has suspended the context and a resume() has asked
\* for it to run again, both made while a chunk plays with another one queued
\* behind it.
C18_Witness ==
    /\ calls = 4
    /\ Len(asked) = 2
    /\ audioContext = "suspended"
    /\ contextTasks = <<"running">>
    /\ Len(queue) = 2
    /\ isPlaying
    /\ currentSource # NoSource
    /\ sources[currentSource].at = 2

(***************************************************************************)
(* Claims about the audio recorder's silence detection.                    *)
(***************************************************************************)
\* The one recording made so far was started by startRecording and nothing
\* else was called; the level has surely been speech for minSpeechLength
\* and has surely been silent since, and still is.
UtteranceHeard ==
    /\ rcalls = 1
    /\ tasks = EmptyBag
    /\ MediaRecorderState(Machine) = "recording"
    /\ marks.loudMs >= minSpeechLength
    /\ marks.dip
    /\ SurelySilent(level)

\* C19: during a recording started with startRecording, a level that stays
\* above the speech threshold for 500 ms and then stays below the silence
\* threshold leads to one automatic stopRecording, and to no more than one.
C19_UtteranceEndsOnce ==
    /\ UtteranceHeard ~> (marks.autoStops = 1 \/ ~UtteranceHeard)
    /\ [](UtteranceHeard => marks.autoStops <= 1)

\* A step in which checkSilence reads the analyser.
SampleStep == marks'.sampled # marks.sampled

\* The silence timer is armed and has neither fired nor been cleared.
TimerPending ==
    /\ recorder.silenceTimer # 0
    /\ timers[recorder.silenceTimer].state = "armed"

\* C20: a sample at or above the silence threshold that is processed while
\* the silence timer is armed cancels the timer, stops nothing, and a
\* cancelled timer never fires.
C20_SoundCancelsSilenceTimer ==
    [][/\ (/\ SampleStep
           /\ TimerPending
           /\ ~IsSilent(level, InitialLevel(level, recorder.lastAudioLevel)))
              => /\ timers'[recorder.silenceTimer].state = "cleared"
                 /\ recorder'.silenceTimer = 0
                 /\ marks'.autoStops = marks.autoStops
       /\ \A i \in DOMAIN timers :
              timers[i].state = "cleared" => timers'[i].state = "cleared"]_vars

\* C20 witness: the second of two overlapping startRecording calls started
\* the loop; a timer armed after 500 ms of speech was cancelled before it
\* was due by a sample between the two thresholds, and nothing was stopped.
C20_Witness ==
    /\ rcalls = 2
    /\ Len(mediaRecorders) = 2
    /\ marks.autoStops = 0
    /\ Listens(Machine)
    /\ recorder.hasDetectedSpeech
    /\ now - recorder.speechStartTime >= minSpeechLength
    /\ recorder.silenceTimer = 0
    /\ ~IsSilent(level, recorder.lastAudioLevel)
    /\ ~HasSpeech(level, recorder.lastAudioLevel)
    /\ \E i \in DOMAIN timers : timers[i].state = "cleared" /\ now < timers[i].due

(***************************************************************************)
(* Claims about handleChatMessage and the stream coordinator.              *)
(***************************************************************************)
PositionsOf(sk, e) == {p \in DOMAIN events[sk] : events[sk][p] = e}

\* C21: once a handled chat message has called streamResponse, every
\* chat:response of that message lies before its stream:start on the
\* socket, and one of them carries the whole generated content.
C21_TextBeforeStreamStart ==
    \A m \in ChatIds : chats[m].stream # 0 =>
        LET sk == chats[m].socket
            starts == PositionsOf(sk, StartEvent(chats[m].stream))
        IN  /\ starts # {}
            /\ \A p \in chats[m].sentAt, q \in starts : p < q
            /\ \E p \in chats[m].sentAt : events[sk][p] = ResponseEvent(chats[m].tokens)

\* C21 witness: the message's stream has ended with every one of its three
\* chunks reported as failed, after two deltas of text were sent.
C21_Witness ==
    /\ chats[1].stream = 1
    /\ chats[1].tokens = 2
    /\ streams[1].exit = "end"
    /\ ChunkCount(streams[1].text) = 3
    /\ \A i \in 0..2 : PositionsOf(chats[1].socket, ChunkErrorEvent(1, i)) # {}
    /\ \A p \in DOMAIN events[chats[1].socket] :
           events[chats[1].socket][p].type # "stream:chunk"

\* A step appends a stream:chunk to the events of socket sk.
EmitsChunk(sk) ==
    \E p \in DOMAIN events'[sk] : p > Len(events[sk]) /\ events'[sk][p].type = "stream:chunk"

\* C22: a makeRequest call that ends on a response whose body is not valid
\* audio does not return it as success, and the step emits no stream:chunk.
C22_GarbledAudioIsAFailure ==
    [][(closed'.stream # 0 /\ ~closed'.audio)
          => /\ ~closed'.ok
             /\ \A sk \in Sockets : ~EmitsChunk(sk)]_vars

\* The chunk loop's notion of a cancelled stream: its socket is no longer
\* registered in activeStreams.
Cancelled(s) == streams[s].pc # "idle" /\ streams[s].socket \notin activeStreams

\* A step appends a stream:chunk of stream s to the events of its socket.
EmitsChunkOf(s) ==
    \E p \in DOMAIN events'[streams[s].socket] :
        /\ p > Len(events[streams[s].socket])
        /\ events'[streams[s].socket][p].type = "stream:chunk"
        /\ events'[streams[s].socket][p].stream = s

\* C23: when a stream is cancelled while one of its synthesis calls is in
\* flight, no step emits a stream:chunk of that stream.
C23_InFlightResultDiscarded ==
    [][\A s \in StreamIds :
           (streams[s].pc = "request" /\ Cancelled(s)) => ~EmitsChunkOf(s)]_vars

\* The events of stream s that a step appends to the events of its socket.
AppendedOf(s) ==
    {events'[streams'[s].socket][p] :
        p \in {q \in DOMAIN events'[streams'[s].socket] :
                  /\ q > Len(events[streams'[s].socket])
                  /\ events'[streams'[s].socket][q].stream = s}}

\* C24: the step in which the chunk loop finds its stream no longer active
\* ends streamResponse and emits nothing after the check (at most the
\* CHUNK_ERROR of the iteration before it); a stream that returned this way
\* emits nothing more.
C24_CancelledLoopReturnsSilently ==
    [][\A s \in StreamIds :
           /\ (streams[s].exit # "cancelled" /\ streams'[s].exit = "cancelled")
                 => /\ streams'[s].pc = "done"
                    /\ AppendedOf(s) \subseteq {ChunkErrorEvent(s, streams[s].i)}
           /\ streams[s].exit = "cancelled"
                 => /\ streams'[s] = streams[s]
                    /\ AppendedOf(s) = {}]_vars

\* C24 witness: a stream returned on the check with two of its three chunks
\* still to come, and the socket's events have gone on since.
C24_Witness ==
    \E s \in StreamIds :
        /\ streams[s].exit = "cancelled"
        /\ streams[s].i = 1
        /\ ChunkCount(streams[s].text) = 3
        /\ Len(EventsOfStream(s)) = 2
        /\ \E u \in StreamIds : u # s /\ streams[u].socket = streams[s].socket
                                       /\ streams[u].exit = "end"

\* Stream s is the most recent streamResponse invocation on its socket.
MostRecent(s) ==
    /\ streams[s].pc # "idle"
    /\ \A u \in StreamIds : u > s => streams[u].socket # streams[s].socket

\* C25: a stream that is the most recent request on its socket is not
\* cancelled by the end of an older one: when it has finished it has
\* attempted every chunk and emitted stream:end.
C25_OlderStreamNeverCancelsNewer ==
    \A s \in StreamIds :
        (MostRecent(s) /\ Finished(s) /\ streams[s].text # NoText) =>
            /\ streams[s].exit = "end"
            /\ streams[s].i = ChunkCount(streams[s].text)
            /\ EndEvent(s) \in {EventsOfStream(s)[k] : k \in DOMAIN EventsOfStream(s)}

\* C26: no invocation emits both stream:end and its own STREAM_ERROR; one
\* whose coordinating loop threw emitted STREAM_ERROR and no stream:end, and
\* one that emitted stream:end has ended without an error of its own.
C26_EndXorStreamError ==
    \A s \in StreamIds :
        LET own == {EventsOfStream(s)[k] : k \in DOMAIN EventsOfStream(s)}
        IN  /\ ~(EndEvent(s) \in own /\ StreamErrorEvent(s) \in own)
            /\ streams[s].exit = "error" => (StreamErrorEvent(s) \in own /\ EndEvent(s) \notin own)
            /\ EndEvent(s) \in own =>
                   /\ streams[s].exit = "end"
                   /\ EventsOfStream(s)[Len(EventsOfStream(s))] = EndEvent(s)

\* C26 witness: of two invocations on one socket, the chunking of one threw
\* and it emitted STREAM_ERROR; the other emitted a chunk and stream:end.
C26_Witness ==
    \E s, u \in StreamIds :
        /\ streams[s].exit = "error"
        /\ StreamErrorEvent(s) = EventsOfStream(s)[Len(EventsOfStream(s))]
        /\ streams[u].socket = streams[s].socket
        /\ streams[u].exit = "end"
        /\ Len(ChunkEventsOf(u)) > 0

\* The failures the retry policy is stated for: a network timeout, HTTP 429
\* and every HTTP 5xx status.
TransientFailure(r) ==
    \/ r.code \in {"ECONNABORTED", "ETIMEDOUT"}
    \/ r.status = 429
    \/ r.status \in 500..599

\* C27: makeRequest retries a request that failed with a network timeout,
\* with HTTP 429 or with any HTTP 5xx status as long as fewer than
\* maxRetries retries have been made, and retries no failure once maxRetries
\* retries have been made.
C27_TransientFailuresRetried ==
    [][\A s \in StreamIds, r \in Responses :
          Respond(s, r) =>
              /\ (TransientFailure(r) /\ streams[s].retryCount < maxRetries)
                     => streams'[s].pc = "backoff"
              /\ (r.status # 200 /\ streams[s].retryCount >= maxRetries)
                     => streams'[s].pc # "backoff"]_vars

\* Chunk c has been played to its end and is no longer queued.
PlayedAndRemoved(c) ==
    /\ \E i \in DOMAIN sources : sources[i].chunk = c /\ sources[i].state = "ended"
    /\ \A k \in DOMAIN queue : queue[k] # c

\* C28: while the queue has not been stopped or cleared, enqueueChunk with
\* the id of a chunk that has already been played and removed is a no-op:
\* it queues nothing, starts no conversion or playback and changes no flag.
C28_ReplayedIdIsIgnored ==
    [][\A c \in ChunkIdSet :
          (NeverStopped /\ PlayedAndRemoved(c) /\ asked' = Append(asked, c)) =>
              UNCHANGED <<queue, isPlaying, pending, reported, currentSource, sources>>]_vars

\* C30: an error with code QUEUE_FULL is reported only by an enqueueChunk
\* call that found the queue holding maxQueueSize entries; a failed
\* conversion or a failed start of playback is never reported with it.
C30_QueueFullMeansFull ==
    [][(/\ Len(reported') > Len(reported)
        /\ reported'[Len(reported')].code = "QUEUE_FULL") =>
           /\ Len(asked') > Len(asked)
           /\ Len(queue) >= config]_vars

\* Every call made so far is an enqueueChunk: no stop(), clear(), pause() or
\* resume().
NoControlCall == NeverStopped /\ calls = Len(asked)

\* C29: when every decode settles, every ended event is delivered and
\* pause, stop and clear are never called, every chunk in the queue
\* eventually leaves it, and a non-empty queue leads to the empty queue with
\* isPlaying false.
C29_QueueDrains ==
    []NoControlCall =>
        /\ \A c \in ChunkIdSet :
               (\E k \in DOMAIN queue : queue[k] = c) ~> (\A k \in DOMAIN queue : queue[k] # c)
        /\ (queue # <<>>) ~> (queue = <<>> /\ ~isPlaying)

\* A step of checkSilence that arms the silence timer.
ArmStep == Len(timers') > Len(timers)

\* C31: the silence timer is armed only when the speech of the recording
\* lasted at least minSpeechLength: the level has been above the speech
\* threshold for that long in all.  A single spike followed by silence arms
\* no timer and so ends no utterance.
C31_TimerNeedsLongEnoughSpeech ==
    [][ArmStep => marks.speechMs >= minSpeechLength]_vars

\* A frame of the loop that processes a sample with the baseline set.
BaselineSampleStep ==
    /\ SampleStep
    /\ Len(mediaRecorders') = Len(mediaRecorders)
    /\ recorder.lastAudioLevel # 0

\* C32: once the baseline (lastAudioLevel) is set, a processed sample that
\* is above the speech threshold leaves it unchanged, and a sample that
\* changes it changes it to 0.7 * baseline + 0.3 * sample.
C32_SpeechLeavesBaseline ==
    [][BaselineSampleStep =>
          /\ HasSpeech(level, recorder.lastAudioLevel)
                 => recorder'.lastAudioLevel = recorder.lastAudioLevel
          /\ recorder'.lastAudioLevel # recorder.lastAudioLevel
                 => recorder'.lastAudioLevel = Decay(level, recorder.lastAudioLevel)]_vars

\* A frame of the loop processes a sample whose level is at or above the
\* silence threshold and at or below the speech threshold.
BandSampleStep ==
    LET last == InitialLevel(level, recorder.lastAudioLevel)
    IN  /\ SampleStep
        /\ Len(mediaRecorders') = Len(mediaRecorders)
        /\ ~IsSilent(level, last)
        /\ ~HasSpeech(level, last)

\* C33: a sample between the two thresholds neither sets hasDetectedSpeech
\* nor arms the silence timer: it starts no utterance and ends none.
C33_BandSampleIsNeutral ==
    [][BandSampleStep =>
          /\ recorder'.hasDetectedSpeech = recorder.hasDetectedSpeech
          /\ recorder'.speechStartTime = recorder.speechStartTime
          /\ timers' \in {timers, ClearSilenceTimer(Machine).timers}
          /\ recorder'.silenceTimer = 0
          /\ marks'.autoStops = marks.autoStops]_vars

\* C33 witness: with the baseline at 70.5, long enough after the speech
\* began for a silent sample to arm the timer, a sample of 15 (between 10.6
\* and 19.0) has been processed: it decayed the baseline and armed nothing.
C33_Witness ==
    LET before == Decay(200, 15 * LevelScale)
    IN  /\ Listens(Machine)
        /\ level = 15
        /\ ~IsSilent(15, before) /\ ~HasSpeech(15, before)
        /\ recorder.lastAudioLevel = Decay(15, before)
        /\ recorder.hasDetectedSpeech
        /\ now - recorder.speechStartTime >= minSpeechLength
        /\ timers = <<>>
        /\ marks.autoStops = 0

\* C34: after the one startRecording() call made on an idle recorder has
\* completed, the silence-detection loop runs: while the recorder is
\* recording and isListening is true, a checkSilence frame is scheduled.
C34_LoopRunsAfterStart ==
    (rcalls = 1 /\ Listens(Machine)) => frames > 0

\* C35: in continuous listening (no stopRecording or cancelRecording call,
\* the microphone always granted), after an automatic stop by the silence
\* timer the recorder eventually records again with isListening true,
\* whether the transcription of the utterance succeeds or fails.
C35_RestartAfterAutoStop ==
    []~marks.interfered =>
        ((marks.autoStops > 0 /\ ~Listens(Machine) /\ Len(mediaRecorders) < MaxRecorders)
             ~> Listens(Machine))

\* The chunks and the last accumulated segment when the word loop of the
\* finished run ended.
AfterWordLoop == ChunkLoop([chunks |-> <<>>, cur |-> <<>>], SplitOnSpace(cText), cLimit)

\* The run was of a text longer than chunkSize and its last segment is
\* shorter than 0.3 * chunkSize, with a chunk before it.
SmallLastSegment ==
    /\ cDone
    /\ Len(cText) > cLimit
    /\ AfterWordLoop.cur # <<>>
    /\ Len(AfterWordLoop.chunks) > 0
    /\ 10 * Len(AfterWordLoop.cur) < 3 * cLimit

\* The previous chunk and the last segment joined by one space.
MergedLast ==
    AfterWordLoop.chunks[Len(AfterWordLoop.chunks)] \o <<SP>> \o AfterWordLoop.cur

\* C36: for a text longer than chunkSize, a last segment shorter than
\* 0.3 * chunkSize is merged into the previous chunk exactly if the merged
\* text has at most chunkSize characters; otherwise both are emitted, so the
\* merge never gives a chunk longer than chunkSize.
C36_SmallLastChunkMerge ==
    SmallLastSegment =>
        LET before == SubSeq(AfterWordLoop.chunks, 1, Len(AfterWordLoop.chunks) - 1)
        IN  /\ Len(MergedLast) <= cLimit => cChunks = Append(before, MergedLast)
            /\ Len(MergedLast) > cLimit
                   => cChunks = Append(AfterWordLoop.chunks, AfterWordLoop.cur)
            /\ cChunks[Len(cChunks)] = MergedLast => Len(MergedLast) <= cLimit

\* C36 witness: a run whose small last segment was merged.
C36_Witness ==
    /\ SmallLastSegment
    /\ Len(MergedLast) <= cLimit
    /\ cChunks[Len(cChunks)] = MergedLast

\* The word characters of a text, in order.
WordLetters(t) == SelectSeq(t, LAMBDA x : x \in WordChars)

\* The word characters of the returned sub-chunks, in order.
RECURSIVE ChunkLetters(_)
ChunkLetters(cs) ==
    IF Len(cs) = 0 THEN <<>> ELSE WordLetters(cs[1]) \o ChunkLetters(Tail(cs))

\* C37: the synthesis client's splitTextIntoChunks loses no text: the word
\* characters of the cleaned input are those of the sub-chunks, in order,
\* including the text after the last sentence terminator.
C37_NoTextLost ==
    cDone => ChunkLetters(cChunks) = WordLetters(CleanText(cText))

\* C38: every sub-chunk returned by the synthesis client's
\* splitTextIntoChunks has between 1 and maxChunkLength characters.
C38_SubChunkLengths ==
    cDone => \A k \in 1..Len(cChunks) :
                 Len(cChunks[k]) >= 1 /\ Len(cChunks[k]) <= maxChunkLength

\* The stream events emitted so far on socket sk.
StreamEventsOn(sk) ==
    SelectSeq(events[sk],
              LAMBDA e : e.type \in {"stream:start", "stream:chunk", "stream:end",
                                     "stream:error"})

\* C39: once a connection has closed, its stream is over: no step starts
\* a synthesis request for a stream of that socket and no step emits a
\* stream event on it.
C39_DisconnectEndsStream ==
    [][\A sk \in Sockets :
          sk \notin activeConnections =>
              /\ StreamEventsOn(sk)' = StreamEventsOn(sk)
              /\ \A s \in StreamIds :
                     (streams[s].socket = sk /\ streams[s].pc # "request")
                         => streams'[s].pc # "request"]_vars

====
